---- MODULE Spec2Model ----
(***************************************************************************)
(* A model of the question-answering service: the multi-key rate limiter   *)
(* (app/rate_limiter.py), the API key manager (app/api_manager.py), the    *)
(* answer cache and the per-question answer path (app/main.py,             *)
(* app/llm_handler.py).                                                    *)
(*                                                                         *)
(* The service runs on one asyncio event loop: code between two awaits     *)
(* runs atomically, so every action below is one such segment.  Time is    *)
(* the integer clock `now` (seconds); it advances only by the Tick action. *)
(***************************************************************************)
EXTENDS Integers, Sequences, FiniteSets, TLC

(***************************************************************************)
(* Bounds of the model.                                                    *)
(***************************************************************************)
NumKeys == 2
MaxRpm == 2
NumCallers == 2
MaxTime == 62
MaxMarks == 5
NumRequests == 2
MaxQuestions == 2
MaxTasks == 2
MaxPages == 3
MaxLines == 2
LiveHorizon == 122

\* the amounts by which the clock advances in one step
TickSteps == {30, 31}

(***************************************************************************)
(* Program constants.                                                      *)
(***************************************************************************)
WINDOW == 60
WAIT_SPAN == 61
ERROR_THRESHOLD == 3
DEFAULT_RPM == 25
API_CONCURRENCY_LIMIT == 8
DIRECT_SIZE_MB == 10
SAMPLED_SIZE_MB == 2
HEADER_MIN_LEN == 10

VARIABLES
    now,                \* time.time()
    max_rpm,            \* MultiKeyRateLimiter.max_rpm
    key_request_times,  \* MultiKeyRateLimiter.key_request_times
    current_key_index,  \* MultiKeyRateLimiter.current_key_index
    lock,               \* MultiKeyRateLimiter.lock: the set of its holders
    lockWaiters,        \* the FIFO queue of callers waiting for the lock
    phase,              \* where each caller is in get_next_available_key
    attempts,           \* the local `attempts` of each caller's sweep
    best_key_index,     \* the local `best_key_index` of _wait_for_best_key
    wakeAt,             \* the instant a sleeping caller's asyncio.sleep ends
    calledAt,           \* the instant the caller's call in progress was made
    sweepStart,         \* the cursor when the sweep of that call began
    result,             \* the key index the caller's last call returned
    rr,                 \* the keys returned by the current run of calls made
                        \* with every window unsaturated (at most NumKeys + 1)
    rrCursor,           \* the cursor before the first call of that run
    key_status,         \* APIKeyManager.key_status
    key_usage_count,    \* APIKeyManager.key_usage_count
    blocked_keys,       \* APIKeyManager.blocked_keys
    probes,             \* the keys whose test_key_health, started by the
                        \* health check in progress, is awaiting the provider
    checking,           \* health_check_all_keys is inside its asyncio.gather
    restrictedSeen,     \* the keys mark_key_error was called for with a text
                        \* that holds "restricted" in some letter case
    consecutive,        \* per key, the mark_key_error calls since the last
                        \* mark_key_success
    req_pc,             \* where each request is in run_query_pipeline
    req_doc,            \* request.documents
    strategy,           \* the local `strategy` of run_query_pipeline
    req_questions,      \* request.questions
    answers,            \* the local `answers` of answer_direct_llm
    response,           \* HackRxResponse.answers
    task_pc,            \* where the answer path of each question is
    task_answer,        \* what the answer path of each question returned
    ANSWER_CACHE,       \* main.ANSWER_CACHE
    stored_collections, \* the collections whose count() is not 0
    storedFor,          \* the (collection, question) pairs an answer was
                        \* stored in ANSWER_CACHE for
    overtaken,          \* the requests one of whose LLM calls ended before
                        \* the call of an earlier question of the request
    issued,             \* the questions an LLM call was issued for
    pdf_pages,          \* the text of each page of the PDF that
                        \* get_and_chunk_pdf downloaded, as its lines
    clean_pages,        \* the clean_page_text of each of its pages
    req_credentials,    \* the Authorization header of each request
    request_times,      \* SingleKeyRateLimiter.request_times
    retrieval,          \* the call of retrieve_context: its arguments, its
                        \* locals and the context it returned
    hits                \* the questions answered from ANSWER_CACHE, each
                        \* with the healthy keys of that instant

limVars == <<now, max_rpm, key_request_times, current_key_index, lock,
             lockWaiters, phase, attempts, best_key_index, wakeAt, result,
             rr, rrCursor, calledAt, sweepStart>>

mgrVars == <<key_status, key_usage_count, blocked_keys,
             probes, checking, restrictedSeen, consecutive>>

pipeVars == <<req_pc, req_doc, strategy, req_questions, answers, response,
              task_pc,
              task_answer, ANSWER_CACHE, stored_collections, storedFor,
              overtaken, issued, hits>>

docVars == <<pdf_pages, clean_pages, retrieval>>

authVars == <<req_credentials>>

singleVars == <<request_times>>

vars == <<limVars, mgrVars, pipeVars, docVars, authVars, singleVars>>

\* the value of `lock` when nobody holds it
Free == {}

key_count == NumKeys
KeyIndices == 0 .. (key_count - 1)
Callers == 1 .. NumCallers
Requests == 1 .. NumRequests
Positions == 1 .. MaxQuestions

\* the answer path of question i of request r is the limiter's caller <<r, i>>
Procs == Requests \X Positions

(***************************************************************************)
(* MultiKeyRateLimiter                                                     *)
(***************************************************************************)

\* the list comprehension [t for t in times if t > cutoff_time]
Purge(times, t) == SelectSeq(times, LAMBDA x : x > t - WINDOW)

\* len(self.key_request_times[key_index]) < self.max_rpm
EligibleMut(times) == Len(times) <= max_rpm
Eligible(times) == Len(times) < max_rpm

\* the number of recorded timestamps of key k within (t - 60, t]
InWindow(k, t) == Len(SelectSeq(key_request_times[k],
                                LAMBDA x : x > t - WINDOW /\ x <= t))

AllUnsaturated == \A k \in KeyIndices : InWindow(k, now) < max_rpm

max_attempts == key_count * 2

SeqMin(s) == CHOOSE x \in {s[i] : i \in DOMAIN s} :
                 \A j \in DOMAIN s : x <= s[j]

\* the run of calls made with every window unsaturated, after one more return
RunAfter(c, key_index, fair) ==
    IF ~fair THEN <<>>
    ELSE IF Len(rr) = key_count + 1 THEN Append(Tail(rr), key_index)
    ELSE Append(rr, key_index)

RunCursorAfter(fair) ==
    IF ~fair \/ rr = <<>> THEN current_key_index
    ELSE IF Len(rr) = key_count + 1 THEN rr[2]
    ELSE rrCursor

\* the lock once `async with self.lock` is left
LockAfterReturnMut(c) == {c}
LockAfterReturn(c) == Free

\* `return api_key, key_index`, which also leaves `async with self.lock`
\* and ends the life of the call's locals
Return(c, key_index, fair) ==
    /\ phase' = [phase EXCEPT ![c] = "returned"]
    /\ result' = [result EXCEPT ![c] = key_index]
    /\ attempts' = [attempts EXCEPT ![c] = 0]
    /\ best_key_index' = [best_key_index EXCEPT ![c] = 0]
    /\ wakeAt' = [wakeAt EXCEPT ![c] = 0]
    /\ calledAt' = [calledAt EXCEPT ![c] = 0]
    /\ sweepStart' = [sweepStart EXCEPT ![c] = 0]
    /\ lock' = LockAfterReturn(c)
    /\ rr' = RunAfter(c, key_index, fair)
    /\ rrCursor' = RunCursorAfter(fair)

\* self.current_key_index = (self.current_key_index + 1) % self.key_count
AdvanceMut(i) == (i + 2) % key_count
AdvanceStaysMut(i) == i
Advance(i) == (i + 1) % key_count

\* one iteration of `while attempts < max_attempts`, run by the lock holder c
\* whose local `attempts` is n
SweepIteration(c, n) ==
    LET key_index == current_key_index
        purged == Purge(key_request_times[key_index], now)
    IN  /\ current_key_index' = Advance(current_key_index)
        /\ IF Eligible(purged)
           THEN /\ key_request_times' =
                       [key_request_times EXCEPT ![key_index] = Append(purged, now)]
                /\ Return(c, key_index, n = 0 /\ AllUnsaturated)
           ELSE /\ key_request_times' =
                       [key_request_times EXCEPT ![key_index] = purged]
                /\ attempts' = [attempts EXCEPT ![c] = n + 1]
                /\ phase' = [phase EXCEPT ![c] =
                       IF n + 1 < max_attempts THEN "sweep" ELSE "wait"]
                /\ lock' = {c}
                /\ calledAt' = [calledAt EXCEPT ![c] =
                       IF phase[c] \in {"idle", "returned"} THEN now ELSE @]
                /\ sweepStart' = [sweepStart EXCEPT ![c] =
                       IF n = 0 THEN key_index ELSE @]
                /\ UNCHANGED <<result, rr, rrCursor, best_key_index, wakeAt>>

\* get_next_available_key is called by c.  `async with self.lock` is entered
\* without yielding when the lock is free and nobody queues for it, and the
\* first iteration of the sweep runs in the same segment; otherwise c queues.
Enter(c) ==
    /\ phase[c] \in {"idle", "returned"}
    /\ IF lock = Free /\ lockWaiters = <<>>
       THEN /\ SweepIteration(c, 0)
            /\ UNCHANGED lockWaiters
       ELSE /\ phase' = [phase EXCEPT ![c] = "lockwait"]
            /\ lockWaiters' = Append(lockWaiters, c)
            /\ calledAt' = [calledAt EXCEPT ![c] = now]
            /\ UNCHANGED <<key_request_times, current_key_index, lock, attempts,
                           result, rr, rrCursor, best_key_index, wakeAt,
                           sweepStart>>
    /\ UNCHANGED <<now, max_rpm>>

\* the first waiter is woken by the release of the lock, takes it and runs
\* the first iteration of its sweep
Resume(c) ==
    /\ phase[c] = "lockwait"
    /\ lock = Free
    /\ lockWaiters # <<>> /\ Head(lockWaiters) = c
    /\ lockWaiters' = Tail(lockWaiters)
    /\ SweepIteration(c, 0)
    /\ UNCHANGED <<now, max_rpm>>

\* a further iteration of the sweep
Sweep(c) ==
    /\ phase[c] = "sweep"
    /\ SweepIteration(c, attempts[c])
    /\ UNCHANGED <<now, max_rpm, lockWaiters>>

\* wait_time = 61 - (now - oldest_request) of key k
WaitTime(k) == WAIT_SPAN - (now - SeqMin(key_request_times[k]))

\* the loop of _wait_for_best_key: the first key of minimal wait time among
\* the keys that have a recorded request, 0 when there is none
BestKeyMut ==
    LET withTimes == {k \in KeyIndices : key_request_times[k] # <<>>}
    IN  IF withTimes = {} THEN 0
        ELSE CHOOSE k \in withTimes : \A j \in withTimes : j <= k

BestKey ==
    LET withTimes == {k \in KeyIndices : key_request_times[k] # <<>>}
    IN  IF withTimes = {} THEN 0
        ELSE CHOOSE k \in withTimes :
                 \A j \in withTimes :
                     \/ WaitTime(k) < WaitTime(j)
                     \/ (WaitTime(k) = WaitTime(j) /\ k <= j)

\* self.key_request_times[best_key_index].append(time.time()) and the return
RecordAndReturn(c, k) ==
    /\ key_request_times' =
           [key_request_times EXCEPT ![k] = Append(@, now)]
    /\ Return(c, k, FALSE)

\* `return await self._wait_for_best_key()` is inside `async with self.lock`:
\* the sleeper keeps the lock it took
LockWhileSleepingMut(c) == Free

LockWhileSleeping(c) == {c}

\* _wait_for_best_key up to its asyncio.sleep; without a sleep it records
\* the request and returns in the same segment
WaitForBestKey(c) ==
    /\ phase[c] = "wait"
    /\ LET k == BestKey
       IN  IF key_request_times[k] = <<>>
           THEN \* best_wait_time is still float('inf'): the sleep never ends
                /\ phase' = [phase EXCEPT ![c] = "sleeping_forever"]
                /\ best_key_index' = [best_key_index EXCEPT ![c] = k]
                /\ UNCHANGED <<key_request_times, result, lock, rr, rrCursor,
                               wakeAt, attempts, calledAt, sweepStart>>
           ELSE IF WaitTime(k) > 0
           THEN /\ phase' = [phase EXCEPT ![c] = "sleeping"]
                /\ best_key_index' = [best_key_index EXCEPT ![c] = k]
                /\ wakeAt' = [wakeAt EXCEPT ![c] = now + WaitTime(k)]
                /\ lock' = LockWhileSleeping(c)
                /\ UNCHANGED <<key_request_times, result, rr, rrCursor,
                               attempts, calledAt, sweepStart>>
           ELSE RecordAndReturn(c, k)
    /\ UNCHANGED <<now, max_rpm, current_key_index, lockWaiters>>

\* asyncio.sleep(best_wait_time) is over: record the request and return
SleepOverMut(c) == now > wakeAt[c]
SleepOver(c) == now >= wakeAt[c]

WakeUp(c) ==
    /\ phase[c] = "sleeping"
    /\ SleepOver(c)
    /\ RecordAndReturn(c, best_key_index[c])
    /\ UNCHANGED <<now, max_rpm, current_key_index, lockWaiters>>

\* the clock advances; the sweep and the start of _wait_for_best_key hold no
\* await, so no second goes by while a caller is inside them
Tick ==
    /\ \A c \in DOMAIN phase : phase[c] \notin {"sweep", "wait"}
    /\ \E d \in TickSteps :
          /\ now + d <= MaxTime
          /\ now' = now + d
    /\ UNCHANGED <<max_rpm, key_request_times, current_key_index, lock,
                   lockWaiters, phase, attempts, best_key_index, wakeAt,
                   result, rr, rrCursor, calledAt, sweepStart>>

(***************************************************************************)
(* SingleKeyRateLimiter (app/rate_limiter.py), which create_rate_limiter   *)
(* builds when one key is configured.                                      *)
(***************************************************************************)
\* len(self.request_times) >= self.max_rpm
SingleSaturatedMut(times) == Len(times) > max_rpm

SingleSaturated(times) == Len(times) >= max_rpm

\* wait_time = 61 - (now - oldest_request), oldest_request = request_times[0]
SingleWaitTime(times) == WAIT_SPAN - (now - times[1])

\* self.request_times.append(now), the end of `async with self.lock` and
\* `return self.api_key, 0`
SingleReturn(c, times) ==
    /\ request_times' = Append(times, now)
    /\ phase' = [phase EXCEPT ![c] = "returned"]
    /\ result' = [result EXCEPT ![c] = 0]
    /\ wakeAt' = [wakeAt EXCEPT ![c] = 0]
    /\ calledAt' = [calledAt EXCEPT ![c] = 0]
    /\ lock' = Free

\* acquire from the moment it holds the lock up to its sleep or its end
AcquireBody(c) ==
    LET purged == Purge(request_times, now)
    IN  IF SingleSaturated(purged) /\ SingleWaitTime(purged) > 0
        THEN /\ request_times' = purged
             /\ phase' = [phase EXCEPT ![c] = "sleeping"]
             /\ wakeAt' = [wakeAt EXCEPT ![c] = now + SingleWaitTime(purged)]
             /\ calledAt' = [calledAt EXCEPT ![c] =
                    IF phase[c] \in {"idle", "returned"} THEN now ELSE @]
             /\ lock' = {c}
             /\ UNCHANGED result
        ELSE SingleReturn(c, purged)

\* get_next_available_key is called by c: it awaits acquire, which takes
\* the lock without yielding when the lock is free and nobody queues for it
Acquire(c) ==
    /\ phase[c] \in {"idle", "returned"}
    /\ IF lock = Free /\ lockWaiters = <<>>
       THEN /\ AcquireBody(c)
            /\ UNCHANGED lockWaiters
       ELSE /\ phase' = [phase EXCEPT ![c] = "lockwait"]
            /\ lockWaiters' = Append(lockWaiters, c)
            /\ calledAt' = [calledAt EXCEPT ![c] = now]
            /\ UNCHANGED <<request_times, lock, result, wakeAt>>
    /\ UNCHANGED <<now, max_rpm, key_request_times, current_key_index,
                   attempts, best_key_index, rr, rrCursor, sweepStart>>

\* the first waiter is woken by the release of the lock and takes it
AcquireResume(c) ==
    /\ phase[c] = "lockwait"
    /\ lock = Free
    /\ lockWaiters # <<>> /\ Head(lockWaiters) = c
    /\ lockWaiters' = Tail(lockWaiters)
    /\ AcquireBody(c)
    /\ UNCHANGED <<now, max_rpm, key_request_times, current_key_index,
                   attempts, best_key_index, rr, rrCursor, sweepStart>>

\* asyncio.sleep(wait_time) is over: the window is purged again with the
\* new time, the request is recorded and the call returns
AcquireWakeUp(c) ==
    /\ phase[c] = "sleeping"
    /\ now >= wakeAt[c]
    /\ SingleReturn(c, Purge(request_times, now))
    /\ UNCHANGED <<now, max_rpm, key_request_times, current_key_index,
                   lockWaiters, attempts, best_key_index, rr, rrCursor,
                   sweepStart>>

(***************************************************************************)
(* Texts are sequences of characters.                                      *)
(***************************************************************************)
UpperCase == <<"A", "B", "C", "D", "E", "I", "O", "R", "S", "T">>
LowerCase == <<"a", "b", "c", "d", "e", "i", "o", "r", "s", "t">>

\* str.lower on one character
LowerChar(ch) ==
    IF \E i \in DOMAIN UpperCase : UpperCase[i] = ch
    THEN LowerCase[CHOOSE i \in DOMAIN UpperCase : UpperCase[i] = ch]
    ELSE ch

\* str.lower
Lower(text) == [i \in DOMAIN text |-> LowerChar(text[i])]

\* `sub in text`
Contains(text, sub) ==
    \E i \in 1 .. (Len(text) - Len(sub) + 1) :
        SubSeq(text, i, i + Len(sub) - 1) = sub

TxtTimeout == <<"t", "i", "m", "e", "o", "u", "t">>
TxtOrganization == 
    <<"O", "r", "g", "a", "n", "i", "z", "a", "t", "i", "o", "n", "_">> \o
    <<"R", "e", "s", "t", "r", "i", "c", "t", "e", "d">>

\* the texts of the errors the provider raises
ErrorTexts == {TxtTimeout, TxtOrganization}

\* the error texts that hold "restricted" in some letter case
RestrictedTexts == {TxtOrganization}

PatOrganizationRestricted == 
    <<"o", "r", "g", "a", "n", "i", "z", "a", "t", "i", "o", "n", "_">> \o
    <<"r", "e", "s", "t", "r", "i", "c", "t", "e", "d">>
PatRestricted == <<"r", "e", "s", "t", "r", "i", "c", "t", "e", "d">>

(***************************************************************************)
(* APIKeyManager                                                           *)
(***************************************************************************)
\* 'organization_restricted' in error.lower() or 'restricted' in error.lower()
IsRestrictedMut(error) ==
    Contains(error, PatOrganizationRestricted) \/ Contains(error, PatRestricted)
IsRestricted(error) ==
    \/ Contains(Lower(error), PatOrganizationRestricted)
    \/ Contains(Lower(error), PatRestricted)

\* the error texts for which mark_key_error blocks the key
BlockingTexts == {error \in ErrorTexts : IsRestricted(error)}

\* get_healthy_keys: the indices of the healthy keys, in index order
HealthyIndices ==
    {i \in DOMAIN key_status : i \notin blocked_keys /\ key_status[i].healthy}

\* the loop of get_healthy_keys from index i on: the list `healthy`
RECURSIVE HealthyFrom(_)
HealthyFrom(i) ==
    IF i >= Cardinality(DOMAIN key_status) THEN <<>>
    ELSE (IF i \notin blocked_keys /\ key_status[i].healthy
          THEN <<i>> ELSE <<>>) \o HealthyFrom(i + 1)

get_healthy_keys == HealthyFrom(0)

\* key=lambda x: self.key_usage_count[x[0]]
UsageKeyMut(i) == 0 - key_usage_count[i]
UsageKey(i) == key_usage_count[i]

\* list.sort, which is stable: each element goes behind the elements whose
\* key is not greater
RECURSIVE InsertByUsage(_, _)
InsertByUsage(sorted, i) ==
    IF sorted = <<>> THEN <<i>>
    ELSE IF UsageKey(i) < UsageKey(Head(sorted)) THEN <<i>> \o sorted
    ELSE <<Head(sorted)>> \o InsertByUsage(Tail(sorted), i)

RECURSIVE SortByUsage(_)
SortByUsage(keys) ==
    IF keys = <<>> THEN <<>>
    ELSE InsertByUsage(SortByUsage(SubSeq(keys, 1, Len(keys) - 1)),
                       keys[Len(keys)])

\* get_best_key: the head of the healthy keys sorted by usage, as a set that
\* is empty when the method returns None
BestKeyInfo ==
    IF get_healthy_keys = <<>> THEN {}
    ELSE {Head(SortByUsage(get_healthy_keys))}

\* self.key_status[key_index]['healthy'] after mark_key_error
HealthyAfterErrorMut(i) ==
    IF consecutive[i] + 1 >= ERROR_THRESHOLD
    THEN FALSE ELSE key_status[i].healthy

HealthyAfterError(i) ==
    IF key_status[i].error_count + 1 >= ERROR_THRESHOLD
    THEN FALSE ELSE key_status[i].healthy

\* mark_key_error(key_index, error); nothing happens for an unknown index
MarkKeyError(i, error) ==
    IF i \in DOMAIN key_status
    THEN /\ key_status' = [key_status EXCEPT ![i] =
                [@ EXCEPT !.error_count = @ + 1,
                          !.healthy = HealthyAfterError(i)]]
         /\ blocked_keys' = IF error \in BlockingTexts
                            THEN blocked_keys \cup {i} ELSE blocked_keys
         /\ restrictedSeen' = IF error \in RestrictedTexts
                              THEN restrictedSeen \cup {i} ELSE restrictedSeen
         /\ consecutive' = [consecutive EXCEPT ![i] = @ + 1]
         /\ UNCHANGED key_usage_count
    ELSE UNCHANGED <<key_status, blocked_keys, restrictedSeen, consecutive,
                     key_usage_count>>

\* self.key_usage_count[key_index] += 1
UsageAfterSuccessMut(i) == key_usage_count[i] + 2
UsageAfterSuccess(i) == key_usage_count[i] + 1

\* mark_key_success(key_index); nothing happens for an unknown index
MarkKeySuccess(i) ==
    IF i \in DOMAIN key_status
    THEN /\ key_status' = [key_status EXCEPT ![i] =
                [@ EXCEPT !.healthy = TRUE, !.last_success = now]]
         /\ key_usage_count' =
                [key_usage_count EXCEPT ![i] = UsageAfterSuccess(i)]
         /\ consecutive' = [consecutive EXCEPT ![i] = 0]
         /\ UNCHANGED <<blocked_keys, restrictedSeen>>
    ELSE UNCHANGED <<key_status, blocked_keys, restrictedSeen, consecutive,
                     key_usage_count>>

RECURSIVE SumOver(_, _)
SumOver(f, S) ==
    IF S = {} THEN 0
    ELSE LET x == CHOOSE y \in S : TRUE
         IN  f[x] + SumOver(f, S \ {x})

\* the number of mark_key_error and mark_key_success calls made so far
Marks ==
    SumOver([i \in KeyIndices |-> key_status[i].error_count + key_usage_count[i]],
            KeyIndices)

\* the counters of the model stay within its bound
MayMark == Marks < MaxMarks

\* a direct call of mark_key_error
CallMarkKeyError(i, error) ==
    /\ MayMark
    /\ MarkKeyError(i, error)
    /\ UNCHANGED <<probes, checking>>

\* a direct call of mark_key_success
CallMarkKeySuccess(i) ==
    /\ MayMark
    /\ MarkKeySuccess(i)
    /\ UNCHANGED <<probes, checking>>

\* health_check_all_keys up to its asyncio.gather: one test_key_health per
\* key that is not blocked; with no task it completes at once
HealthCheckStart ==
    /\ ~checking
    /\ LET tasks == KeyIndices \ blocked_keys
       IN  /\ probes' = tasks
           /\ checking' = (tasks # {})
    /\ UNCHANGED <<key_status, key_usage_count, blocked_keys, restrictedSeen,
                   consecutive>>

\* test_key_health: the provider answers with choices
ProbeSuccess(i) ==
    /\ i \in probes
    /\ MayMark
    /\ MarkKeySuccess(i)
    /\ probes' = probes \ {i}
    /\ UNCHANGED checking

\* test_key_health: the provider answers without choices; nothing is marked
ProbeEmpty(i) ==
    /\ i \in probes
    /\ probes' = probes \ {i}
    /\ UNCHANGED <<key_status, key_usage_count, blocked_keys, checking,
                   restrictedSeen, consecutive>>

\* test_key_health: the call raises, with str(e) = error
ProbeError(i, error) ==
    /\ i \in probes
    /\ MayMark
    /\ MarkKeyError(i, error)
    /\ probes' = probes \ {i}
    /\ UNCHANGED checking

\* health_check_all_keys after its asyncio.gather: test_key_health catches
\* every exception, so no result is an exception and nothing more is marked
HealthCheckFinish ==
    /\ checking
    /\ probes = {}
    /\ checking' = FALSE
    /\ UNCHANGED <<key_status, key_usage_count, blocked_keys, probes,
                   restrictedSeen, consecutive>>

(***************************************************************************)
(* The answer cache and the answer path (app/main.py, app/llm_handler.py)  *)
(***************************************************************************)
IsSpace(ch) == ch = " "

\* str.strip
RECURSIVE LStrip(_)
LStrip(text) ==
    IF text # <<>> /\ IsSpace(Head(text)) THEN LStrip(Tail(text)) ELSE text

RECURSIVE RStrip(_)
RStrip(text) ==
    IF text # <<>> /\ IsSpace(text[Len(text)])
    THEN RStrip(SubSeq(text, 1, Len(text) - 1)) ELSE text

Strip(text) == RStrip(LStrip(text))

(***************************************************************************)
(* retrieve_context: the candidates nearest to the query, reranked by the  *)
(* cross encoder.                                                          *)
(***************************************************************************)
MaxChunks == 7
MaxScore == 2

Digits == <<"1", "2", "3", "4", "5", "6", "7", "8", "9">>

\* the chunks of the collection, nearest to the query first
ChunkText(i) ==
    IF i % 2 = 1 THEN <<" ", "c", Digits[i]>> ELSE <<"c", Digits[i], " ">>

DefinitionWords ==
    {<<"w", "h", "a", "t", " ", "i", "s">>,
     <<"w", "h", "a", "t", " ", "a", "r", "e">>,
     <<"d", "e", "f", "i", "n", "e">>,
     <<"m", "e", "a", "n", "i", "n", "g">>}

NumericalWords ==
    {<<"h", "o", "w", " ", "m", "u", "c", "h">>,
     <<"h", "o", "w", " ", "m", "a", "n", "y">>,
     <<"w", "h", "a", "t", " ", "i", "s", " ", "t", "h", "e", " ", "c", "o", "s", "t">>,
     <<"p", "r", "i", "c", "e">>,
     <<"a", "m", "o", "u", "n", "t">>,
     <<"l", "i", "m", "i", "t">>}

QueryPool ==
    {<<"w", "h", "a", "t", " ", "I", "S", " ", "a">>,
     <<"p", "R", "I", "C", "E">>,
     <<"a", " ", "a", " ", "a", " ", "a", " ", "a", " ", "a", " ", "a", " ", "a", " ", "a", " ", "a", " ", "a">>,
     <<"a", " ", "a", " ", "a", " ", "a", " ", "a", " ", "a", " ", "a", " ", "a", " ", "a", " ", "a">>,
     <<"i", "s", " ", "i", "t">>,
     <<"w", "h", "a", "t", " ", "i", "s", " ", "t", "h", "e", " ", "c", "o", "s", "t">>}

\* len(query.split())
WordCount(text) ==
    Cardinality({i \in DOMAIN text :
                    /\ ~IsSpace(text[i])
                    /\ (i = 1 \/ IsSpace(text[i - 1]))})

is_definition(query) ==
    \E word \in DefinitionWords : Contains(Lower(query), word)

is_numerical(query) ==
    \E word \in NumericalWords : Contains(Lower(query), word)

\* k_candidates and k_final
retrieval_depth(query) ==
    IF is_definition(query) \/ WordCount(query) > 10
    THEN [k_candidates |-> 12, k_final |-> 6]
    ELSE IF is_numerical(query)
         THEN [k_candidates |-> 10, k_final |-> 5]
         ELSE [k_candidates |-> 8, k_final |-> 4]

\* collection.query(n_results=k_candidates) on a collection of count chunks
initial_documents(count, k_candidates) ==
    [i \in 1 .. (IF count < k_candidates THEN count ELSE k_candidates) |->
        ChunkText(i)]

\* the order of doc_scores.sort(key=score, reverse=True)
RanksBeforeMut(a, b) == a[2] <= b[2]

RanksBefore(a, b) == a[2] >= b[2]

RECURSIVE InsertByScore(_, _)
InsertByScore(pair, sorted) ==
    IF sorted = <<>> THEN <<pair>>
    ELSE IF RanksBefore(Head(sorted), pair)
         THEN <<Head(sorted)>> \o InsertByScore(pair, Tail(sorted))
         ELSE <<pair>> \o sorted

\* list.sort is stable: equal scores keep the order of the candidates
RECURSIVE SortByScore(_)
SortByScore(pairs) ==
    IF pairs = <<>> THEN <<>>
    ELSE InsertByScore(pairs[Len(pairs)],
                       SortByScore(SubSeq(pairs, 1, Len(pairs) - 1)))

\* f"[Section {i+1}] {doc.strip()}"
context_part(i, doc) ==
    <<"[", "S", "e", "c", "t", "i", "o", "n", " ", Digits[i], "]", " ">>
        \o Strip(doc)

\* "\n\n".join(context_parts)
RECURSIVE JoinParts(_)
JoinParts(parts) ==
    IF parts = <<>> THEN <<>>
    ELSE IF Len(parts) = 1 THEN parts[1]
         ELSE parts[1] \o <<"\n", "\n">> \o JoinParts(Tail(parts))

NoRetrieval ==
    [pc |-> "none", query |-> <<>>, count |-> 0, cross_scores |-> <<>>,
     k_candidates |-> 0, k_final |-> 0, initial_documents |-> <<>>,
     final_docs |-> <<>>, final_context |-> <<>>]

\* a call of retrieve_context on a collection of count chunks, with the
\* scores the cross encoder gives the candidates for the query
RetrievalCall(query, count, scores) ==
    [NoRetrieval EXCEPT !.pc = "called", !.query = query, !.count = count,
                        !.cross_scores = scores]

retrieve_context(call) ==
    LET depth == retrieval_depth(call.query)
        documents == initial_documents(call.count, depth.k_candidates)
        doc_scores ==
            SortByScore([i \in DOMAIN documents |->
                            <<documents[i], call.cross_scores[i]>>])
        kept == IF Len(doc_scores) < depth.k_final
                THEN Len(doc_scores) ELSE depth.k_final
        final_docs == [i \in 1 .. kept |-> doc_scores[i][1]]
    IN  [call EXCEPT
            !.pc = "returned",
            !.k_candidates = depth.k_candidates,
            !.k_final = depth.k_final,
            !.initial_documents = documents,
            !.final_docs = IF documents = <<>> THEN <<>> ELSE final_docs,
            !.final_context =
                IF documents = <<>> THEN <<>>
                ELSE JoinParts([i \in DOMAIN final_docs |->
                                   context_part(i, final_docs[i])])]

RetrieveContext ==
    /\ retrieval.pc = "called"
    /\ retrieval' = retrieve_context(retrieval)
    /\ UNCHANGED <<pdf_pages, clean_pages>>

\* question.strip().lower()
NormalizeMut(question) == Strip(question)
Normalize(question) == Lower(Strip(question))

\* the questions clients ask
QuestionAb == <<"a", "b">>
QuestionUpper == <<" ", "A", "B">>
QuestionSpaced == <<"a", " ", "b">>
QuestionPool == {QuestionAb, QuestionUpper, QuestionSpaced}
QuestionLists == UNION {[1 .. n -> QuestionPool] : n \in 0 .. MaxQuestions}

\* the URLs of the documents
UrlPolicy == <<"p", "o", "l", "i", "c", "y", ".", "p", "d", "f">>
UrlBook == <<"b", "o", "o", "k", ".", "p", "d", "f">>
UrlTextBook == <<"T", "e", "x", "t", "B", "o", "o", "k", ".", "p", "d", "f">>

\* a document as analyze_document_strategy sees it: its URL, its size, its
\* page count and the two keyword scores of the text sampled from it; its
\* pages hold text
Document(url, size_mb, total_pages, insurance_score, general_score) ==
    [url |-> url, size_mb |-> size_mb, total_pages |-> total_pages,
     insurance_score |-> insurance_score, general_score |-> general_score,
     has_text |-> TRUE, opens |-> TRUE]

\* the same document with pages that hold no text: page.get_text("text") is
\* empty, no keyword is found and get_and_chunk_pdf returns no chunk
WithoutText(doc) ==
    [doc EXCEPT !.has_text = FALSE, !.insurance_score = 0,
                !.general_score = 0]

\* the bytes are not a PDF that fitz opens: fitz.open raises, in
\* analyze_document_strategy and in get_and_chunk_pdf
Unreadable(doc) ==
    [doc EXCEPT !.opens = FALSE, !.has_text = FALSE, !.total_pages = 0,
                !.insurance_score = 0, !.general_score = 0]

\* the documents clients name: one below and one above the size from which
\* analyze_document_strategy routes to the direct strategy
Documents == {Document(UrlPolicy, DIRECT_SIZE_MB - 9, 12, 6, 0),
              Document(UrlBook, DIRECT_SIZE_MB + 1, 300, 0, 4)}
NoDocument == Document(<<>>, 0, 0, 0, 0)

\* ['constitution', 'principia', 'manual', 'textbook']
UrlTerms ==
    {<<"c", "o", "n", "s", "t", "i", "t", "u", "t", "i", "o", "n">>,
     <<"p", "r", "i", "n", "c", "i", "p", "i", "a">>,
     <<"m", "a", "n", "u", "a", "l">>,
     <<"t", "e", "x", "t", "b", "o", "o", "k">>}

\* url and any(term in url.lower() for term in [...])
UrlPattern(url) ==
    url # <<>> /\ \E term \in UrlTerms : Contains(Lower(url), term)

\* general_score >= 3 and general_score > insurance_score
GeneralDominatesMut(general_score, insurance_score) ==
    general_score >= 3 /\ general_score >= insurance_score
GeneralDominates(general_score, insurance_score) ==
    general_score >= 3 /\ general_score > insurance_score

\* the chain of checks that sets is_general_document
is_general_document(doc) ==
    IF doc.total_pages > 200
    THEN ~(doc.insurance_score >= 5)
    ELSE IF GeneralDominates(doc.general_score, doc.insurance_score)
    THEN TRUE
    ELSE IF doc.insurance_score <= 1 /\ doc.general_score >= 2
    THEN TRUE
    ELSE IF UrlPattern(doc.url)
    THEN ~(doc.insurance_score >= 3)
    ELSE IF /\ doc.total_pages > 100
            /\ doc.general_score > doc.insurance_score
            /\ doc.insurance_score < 3
    THEN TRUE
    ELSE FALSE

\* analyze_document_strategy; `except Exception` catches what the content
\* analysis raises and the function goes on to its last return
analyze_document_strategyMut(doc) ==
    IF doc.size_mb > DIRECT_SIZE_MB THEN "direct_llm"
    ELSE IF doc.size_mb > SAMPLED_SIZE_MB
            /\ (~doc.opens \/ is_general_document(doc))
    THEN "direct_llm"
    ELSE "rag"

analyze_document_strategy(doc) ==
    IF doc.size_mb > DIRECT_SIZE_MB THEN "direct_llm"
    ELSE IF doc.size_mb > SAMPLED_SIZE_MB
            /\ doc.opens
            /\ is_general_document(doc)
    THEN "direct_llm"
    ELSE "rag"

\* collection_name: the md5 digest of the URL, taken as free of collisions
collection_name(doc) == doc.url

\* get_cache_key: the md5 digest of "<collection_name>:<normalized question>",
\* taken as free of collisions
get_cache_key(question, name) == <<name, Normalize(question)>>

\* the answers: the text the LLM produced for a question, or a fixed text
Answer(kind, question) == [kind |-> kind, q |-> question]
Placeholder(kind) == [kind |-> kind, q |-> <<>>]
NoAnswer == Placeholder("none")
Unavailable == Placeholder("unavailable")

\* how a call of client.chat.completions.create ends
Outcomes == {"ok", "RateLimitError", "GroqError", "Exception"}

\* what generate_answer_async returns
GeneratedAnswerMut(question, outcome) ==
    IF outcome \in {"ok", "RateLimitError"} THEN Answer("llm", question)
    ELSE Placeholder("unexpected")

GeneratedAnswer(question, outcome) ==
    CASE outcome = "ok" -> Answer("llm", question)
      [] outcome = "RateLimitError" -> Placeholder("busy")
      [] outcome = "GroqError" -> Placeholder("groq_error")
      [] OTHER -> Placeholder("unexpected")

\* what one iteration of the loop of answer_direct_llm appends
DirectAnswer(question, outcome) ==
    IF outcome = "ok" THEN Answer("llm", question) ELSE Placeholder("no_info")

\* the tasks of request r, one per question
TasksOf(r) == {<<r, i>> : i \in 1 .. Len(req_questions[r])}

\* the requests overtaken once the LLM call of p has ended
OvertakenAfter(p) ==
    IF \E i \in 1 .. (p[2] - 1) : task_pc[<<p[1], i>>] \in {"retrieving", "inflight"}
    THEN overtaken \cup {p[1]} ELSE overtaken

\* the result of asyncio.gather(*tasks): the tasks' results in task order
GatherMut(r) ==
    [i \in 1 .. Len(req_questions[r]) |->
        task_answer[<<r, Len(req_questions[r]) + 1 - i>>]]
Gather(r) == [i \in 1 .. Len(req_questions[r]) |-> task_answer[<<r, i>>]]

\* await limiter.get_next_available_key(), in the runs of the model: the
\* requests of a run make fewer than max_rpm calls, so that the call returns
\* without waiting, in the segment that makes it
GetKey(p) ==
    /\ Enter(p)
    /\ phase'[p] = "returned"

\* ANSWER_CACHE[cache_key] = answer
CacheStore(p, answer) ==
    LET r == p[1]
        question == req_questions[r][p[2]]
        name == collection_name(req_doc[r])
        cache_key == get_cache_key(question, name)
    IN  /\ ANSWER_CACHE' =
               [k \in DOMAIN ANSWER_CACHE \cup {cache_key} |->
                   IF k = cache_key THEN answer ELSE ANSWER_CACHE[k]]
        /\ storedFor' = storedFor \cup {<<name, question>>}

\* the loop of answer_direct_llm for request r once `done` holds its answers
\* and pcs tells where the questions are: with a question left it takes a key
\* and issues the LLM call, otherwise run_query_pipeline responds
DirectLoop(r, questions, done, pcs) ==
    /\ answers' = [answers EXCEPT ![r] = done]
    /\ IF Len(done) = Len(questions)
       THEN /\ req_pc' = [req_pc EXCEPT ![r] = "responded"]
            /\ response' = [response EXCEPT ![r] = done]
            /\ task_pc' = pcs
            /\ UNCHANGED <<limVars, issued>>
       ELSE LET p == <<r, Len(done) + 1>>
            IN  /\ GetKey(p)
                /\ req_pc' = [req_pc EXCEPT ![r] = "direct"]
                /\ task_pc' = [pcs EXCEPT ![p] = "inflight"]
                /\ issued' = issued \cup {p}
                /\ UNCHANGED response

\* tasks = [...]; await asyncio.gather(*tasks): with no task the result is
\* there at once and run_query_pipeline responds
Launch(r, questions) ==
    IF questions = <<>>
    THEN /\ req_pc' = [req_pc EXCEPT ![r] = "responded"]
         /\ response' = [response EXCEPT ![r] = <<>>]
    ELSE /\ req_pc' = [req_pc EXCEPT ![r] = "launched"]
         /\ UNCHANGED response

\* the number of questions of the requests received so far
QuestionsAsked ==
    SumOver([r \in Requests |-> Len(req_questions[r])], Requests)

\* config.API_BEARER_TOKEN, shortened to its first characters
API_BEARER_TOKEN == <<"5", "2", "3", "9">>

\* the Authorization headers clients send: none, or a scheme and a token
NoCredentials == [scheme |-> "", credentials |-> <<>>]
Credentials(scheme, token) == [scheme |-> scheme, credentials |-> token]
ValidCredentials == Credentials("Bearer", API_BEARER_TOKEN)
CredentialPool ==
    {NoCredentials, ValidCredentials,
     Credentials("bearer", API_BEARER_TOKEN),
     Credentials("Bearer", API_BEARER_TOKEN \o <<"9">>),
     Credentials("Bearer", SubSeq(API_BEARER_TOKEN, 1, 3)),
     Credentials("Bearer", <<>>)}

\* credentials.credentials != config.API_BEARER_TOKEN
TokenDiffersMut(token) ==
    \/ Len(token) < Len(API_BEARER_TOKEN)
    \/ SubSeq(token, 1, Len(API_BEARER_TOKEN)) # API_BEARER_TOKEN
TokenDiffers(token) == token # API_BEARER_TOKEN

\* Depends(verify_token): HTTPBearer answers 403 without a header, and
\* verify_token raises 401 for another scheme or another token
verify_token(credentials) ==
    /\ credentials # NoCredentials
    /\ ~(credentials.scheme # "Bearer" \/ TokenDiffers(credentials.credentials))

\* POST /hackrx/run with a header that the dependency refuses: the endpoint
\* function is not called
RejectRequest(r) ==
    /\ req_pc[r] = "new"
    /\ \A s \in Requests : s < r => req_pc[s] # "new"
    /\ ~verify_token(req_credentials[r])
    /\ req_pc' = [req_pc EXCEPT ![r] = "rejected"]
    /\ UNCHANGED <<limVars, req_doc, strategy, req_questions, answers,
                   response, task_pc, task_answer, ANSWER_CACHE,
                   stored_collections, storedFor, overtaken, issued, hits>>

\* `not chunks`: get_and_chunk_pdf skips the pages whose text is empty
ChunksMissing(doc) == ~doc.has_text

\* run_query_pipeline up to its first suspension.  The download and the
\* analysis are synchronous.  The requests are numbered as they arrive.
StartRequest(r, doc, questions) ==
    /\ req_pc[r] = "new"
    /\ \A s \in Requests : s < r => req_pc[s] # "new"
    /\ req_doc' = [req_doc EXCEPT ![r] = doc]
    /\ strategy' = [strategy EXCEPT ![r] = analyze_document_strategy(doc)]
    /\ req_questions' = [req_questions EXCEPT ![r] = questions]
    /\ IF analyze_document_strategy(doc) = "direct_llm"
       THEN DirectLoop(r, questions, <<>>, task_pc)
       ELSE /\ IF collection_name(doc) \in stored_collections
               THEN Launch(r, questions)
               ELSE \* `if not chunks: raise HTTPException(status_code=400)`
                    /\ req_pc' = [req_pc EXCEPT ![r] =
                           IF ChunksMissing(doc) THEN "failed"
                           ELSE "ingesting"]
                    /\ UNCHANGED response
            /\ UNCHANGED <<limVars, answers, task_pc, issued>>
    /\ UNCHANGED <<task_answer, ANSWER_CACHE, stored_collections, storedFor,
                   overtaken, hits>>

\* POST /hackrx/run with a header that the dependency accepts
AcceptRequest(r, doc, questions) ==
    /\ verify_token(req_credentials[r])
    /\ StartRequest(r, doc, questions)

\* run_query_pipeline raises before its first suspension: the download fails
\* (HTTP 500) or the document yields no chunk (HTTP 400)
RequestFails(r) ==
    /\ req_pc[r] = "new"
    /\ \A s \in Requests : s < r => req_pc[s] # "new"
    /\ req_pc' = [req_pc EXCEPT ![r] = "failed"]
    /\ UNCHANGED <<limVars, req_doc, strategy, req_questions, answers, response, task_pc,
                   task_answer, ANSWER_CACHE, stored_collections, storedFor,
                   overtaken, issued, hits>>

\* embed_and_store_async is over: the collection holds the chunks and the
\* tasks are launched
IngestDone(r) ==
    /\ req_pc[r] = "ingesting"
    /\ stored_collections' =
           stored_collections \cup {collection_name(req_doc[r])}
    /\ Launch(r, req_questions[r])
    /\ UNCHANGED <<limVars, req_doc, strategy, req_questions, answers, task_pc,
                   task_answer, ANSWER_CACHE, storedFor, overtaken, issued,
                   hits>>

\* get_cached_answer_or_generate up to its first suspension
BeginState(question, name) ==
    IF get_cache_key(question, name) \in DOMAIN ANSWER_CACHE THEN "done"
    ELSE IF BestKeyInfo = {} THEN "done"
    ELSE "retrieving"

BeginAnswer(question, name) ==
    IF get_cache_key(question, name) \in DOMAIN ANSWER_CACHE
    THEN ANSWER_CACHE[get_cache_key(question, name)]
    ELSE IF BestKeyInfo = {} THEN Unavailable
    ELSE NoAnswer

\* the tasks of asyncio.gather run their first segments one after the other
TasksBegin(r) ==
    /\ req_pc[r] = "launched"
    /\ req_pc' = [req_pc EXCEPT ![r] = "gathering"]
    /\ task_pc' = [p \in DOMAIN task_pc |->
           IF p \in TasksOf(r)
           THEN BeginState(req_questions[r][p[2]], collection_name(req_doc[r]))
           ELSE task_pc[p]]
    /\ task_answer' = [p \in DOMAIN task_answer |->
           IF p \in TasksOf(r)
           THEN BeginAnswer(req_questions[r][p[2]], collection_name(req_doc[r]))
           ELSE task_answer[p]]
    /\ hits' = hits \cup
           {[task |-> p, healthy |-> HealthyIndices] : p \in
               {t \in TasksOf(r) :
                   get_cache_key(req_questions[r][t[2]],
                                 collection_name(req_doc[r]))
                       \in DOMAIN ANSWER_CACHE}}
    /\ UNCHANGED <<limVars, req_doc, strategy, req_questions, answers, response,
                   ANSWER_CACHE, stored_collections, storedFor, overtaken,
                   issued>>

\* retrieve_context is over: generate_answer_async takes a key from the
\* limiter and issues the LLM call
RetrievalDone(p) ==
    /\ task_pc[p] = "retrieving"
    /\ GetKey(p)
    /\ task_pc' = [task_pc EXCEPT ![p] = "inflight"]
    /\ issued' = issued \cup {p}
    /\ UNCHANGED <<req_pc, req_doc, strategy, req_questions, answers, response,
                   task_answer, ANSWER_CACHE, stored_collections, storedFor,
                   overtaken, hits>>

\* retrieve_context raises in the executor: the exception leaves
\* get_cached_answer_or_generate and asyncio.gather, which does not cancel
\* the other tasks, and run_query_pipeline turns it into HTTP 500
RetrievalFails(p) ==
    /\ task_pc[p] = "retrieving"
    /\ task_pc' = [task_pc EXCEPT ![p] = "raised"]
    /\ req_pc' = [req_pc EXCEPT ![p[1]] = "failed"]
    /\ UNCHANGED <<limVars, req_doc, strategy, req_questions, answers, response,
                   task_answer, ANSWER_CACHE, stored_collections, storedFor,
                   overtaken, issued, hits>>

\* the answer of generate_answer_async is cached and returned
FinishTask(p, answer) ==
    /\ task_pc' = [task_pc EXCEPT ![p] = "done"]
    /\ task_answer' = [task_answer EXCEPT ![p] = answer]
    /\ CacheStore(p, answer)

\* the LLM call of a task of the retrieval strategy ends
LlmDone(p, outcome) ==
    /\ task_pc[p] = "inflight"
    /\ req_pc[p[1]] \in {"gathering", "failed"}
    /\ overtaken' = OvertakenAfter(p)
    /\ IF outcome = "RateLimitError"
       THEN \* await asyncio.sleep(5)
            /\ task_pc' = [task_pc EXCEPT ![p] = "backoff"]
            /\ UNCHANGED <<task_answer, ANSWER_CACHE, storedFor>>
       ELSE FinishTask(p, GeneratedAnswer(req_questions[p[1]][p[2]], outcome))
    /\ UNCHANGED <<limVars, req_pc, req_doc, strategy, req_questions, answers, response,
                   stored_collections, issued, hits>>

\* asyncio.sleep(5) is over
BackoffDone(p) ==
    /\ task_pc[p] = "backoff"
    /\ FinishTask(p, GeneratedAnswer(req_questions[p[1]][p[2]],
                                     "RateLimitError"))
    /\ UNCHANGED <<limVars, req_pc, req_doc, strategy, req_questions, answers, response,
                   stored_collections, overtaken, issued, hits>>

\* asyncio.gather is over: run_query_pipeline responds
Respond(r) ==
    /\ req_pc[r] = "gathering"
    /\ \A p \in TasksOf(r) : task_pc[p] = "done"
    /\ req_pc' = [req_pc EXCEPT ![r] = "responded"]
    /\ response' = [response EXCEPT ![r] = Gather(r)]
    /\ UNCHANGED <<limVars, req_doc, strategy, req_questions, answers, task_pc,
                   task_answer, ANSWER_CACHE, stored_collections, storedFor,
                   overtaken, issued, hits>>

\* the LLM call of the direct strategy ends: the answer is appended and the
\* loop goes on
DirectLlmDone(p, outcome) ==
    /\ task_pc[p] = "inflight"
    /\ req_pc[p[1]] = "direct"
    /\ task_answer' = [task_answer EXCEPT ![p] =
           DirectAnswer(req_questions[p[1]][p[2]], outcome)]
    /\ DirectLoop(p[1], req_questions[p[1]],
                  Append(answers[p[1]],
                         DirectAnswer(req_questions[p[1]][p[2]], outcome)),
                  [task_pc EXCEPT ![p] = "done"])
    /\ UNCHANGED <<req_doc, strategy, req_questions, ANSWER_CACHE, stored_collections,
                   storedFor, overtaken, hits>>

\* key_status and key_usage_count as APIKeyManager.__init__ sets them
FreshKeyStatus ==
    [i \in KeyIndices |->
        [healthy |-> TRUE, error_count |-> 0, last_success |-> 0]]
FreshUsage == [i \in KeyIndices |-> 0]

\* APIKeyManager.__init__ at time 0, beside the limiter that
\* create_rate_limiter builds, before any call; the first call comes at
\* time 0 or later
InitManager ==
    /\ key_status = FreshKeyStatus
    /\ key_usage_count = FreshUsage
    /\ blocked_keys = {}
    /\ probes = {}
    /\ checking = FALSE
    /\ restrictedSeen = {}
    /\ consecutive = [i \in KeyIndices |-> 0]
    /\ now \in {0} \cup TickSteps
    /\ max_rpm = MaxRpm
    /\ key_request_times = [k \in KeyIndices |-> <<>>]
    /\ current_key_index = 0
    /\ lock = Free
    /\ lockWaiters = <<>>
    /\ phase = [c \in Callers |-> "idle"]
    /\ attempts = [c \in Callers |-> 0]
    /\ best_key_index = [c \in Callers |-> 0]
    /\ wakeAt = [c \in Callers |-> 0]
    /\ calledAt = [c \in Callers |-> 0]
    /\ sweepStart = [c \in Callers |-> 0]
    /\ result = [c \in Callers |-> 0]
    /\ rr = <<>>
    /\ rrCursor = 0
    /\ req_pc = [r \in Requests |-> "new"]
    /\ req_doc = [r \in Requests |-> NoDocument]
    /\ strategy = [r \in Requests |-> "none"]
    /\ req_questions = [r \in Requests |-> <<>>]
    /\ answers = [r \in Requests |-> <<>>]
    /\ response = [r \in Requests |-> <<>>]
    /\ task_pc = [p \in Procs |-> "none"]
    /\ task_answer = [p \in Procs |-> NoAnswer]
    /\ ANSWER_CACHE = <<>>
    /\ stored_collections = {}
    /\ storedFor = {}
    /\ overtaken = {}
    /\ issued = {}
    /\ hits = {}
    /\ pdf_pages = <<>>
    /\ clean_pages = <<>>
    /\ request_times = <<>>
    /\ retrieval = NoRetrieval
    /\ req_credentials = [r \in Requests |-> ValidCredentials]

(***************************************************************************)
(* The key manager on its own, under any sequence of calls.                *)
(***************************************************************************)
NextManager ==
    \/ /\ \E i \in KeyIndices \cup {key_count}, error \in ErrorTexts :
             CallMarkKeyError(i, error)
       /\ UNCHANGED <<limVars, pipeVars, docVars, authVars, singleVars>>
    \/ /\ \E i \in KeyIndices \cup {key_count} : CallMarkKeySuccess(i)
       /\ UNCHANGED <<limVars, pipeVars, docVars, authVars, singleVars>>
    \/ /\ HealthCheckStart
       /\ UNCHANGED <<limVars, pipeVars, docVars, authVars, singleVars>>
    \/ /\ \E i \in KeyIndices : ProbeSuccess(i)
       /\ UNCHANGED <<limVars, pipeVars, docVars, authVars, singleVars>>
    \/ /\ \E i \in KeyIndices : ProbeEmpty(i)
       /\ UNCHANGED <<limVars, pipeVars, docVars, authVars, singleVars>>
    \/ /\ \E i \in KeyIndices, error \in ErrorTexts : ProbeError(i, error)
       /\ UNCHANGED <<limVars, pipeVars, docVars, authVars, singleVars>>
    \/ /\ HealthCheckFinish
       /\ UNCHANGED <<limVars, pipeVars, docVars, authVars, singleVars>>

SpecManager == InitManager /\ [][NextManager]_vars

(***************************************************************************)
(* Properties of the key manager.                                          *)
(***************************************************************************)

\* C2: once mark_key_error was called for a key with an error text matching
\* the restricted pattern, the key is in blocked_keys and is returned neither
\* by get_healthy_keys nor by get_best_key, whatever calls of
\* mark_key_success, mark_key_error and health_check_all_keys follow.
BlockedPermanent ==
    \A i \in restrictedSeen :
        /\ i \in blocked_keys
        /\ i \notin HealthyIndices
        /\ i \notin BestKeyInfo

\* a key that got a restricted error and, later, a success that made it
\* healthy again
BlockedPermanentWitness ==
    \E i \in restrictedSeen :
        /\ key_status[i].healthy
        /\ consecutive[i] = 0
        /\ key_usage_count[i] >= 1

\* C12: get_best_key returns, among the keys that are healthy and not
\* blocked, one of minimal usage counter, the lowest index among ties, and
\* returns None exactly when no key is both healthy and not blocked.
BestKeyLeastUsed ==
    LET eligible == {i \in KeyIndices :
                        key_status[i].healthy /\ i \notin blocked_keys}
    IN  /\ (BestKeyInfo = {}) <=> (eligible = {})
        /\ Cardinality(BestKeyInfo) <= 1
        /\ \A b \in BestKeyInfo :
               /\ b \in eligible
               /\ \A j \in eligible :
                      \/ key_usage_count[b] < key_usage_count[j]
                      \/ (key_usage_count[b] = key_usage_count[j] /\ b <= j)

\* get_best_key returns a key that is not the first of the eligible keys,
\* because an eligible key of lower index was used more
BestKeyLeastUsedWitness ==
    \E b \in BestKeyInfo :
        \E j \in KeyIndices :
            /\ j < b
            /\ key_status[j].healthy /\ j \notin blocked_keys
            /\ key_usage_count[j] > key_usage_count[b]

\* C13: mark_key_success(i) sets the healthy flag of key i, adds exactly 1
\* to its usage counter and sets its last-success time to the time of the
\* call; it leaves its error count, the blocked set and the state of every
\* other key unchanged, so that a blocked key stays blocked.  (The usage
\* counter changes in no other method.)
MarkSuccessFrame ==
    [][\A i \in KeyIndices :
          key_usage_count'[i] # key_usage_count[i] =>
              /\ key_status'[i].healthy
              /\ key_usage_count'[i] = key_usage_count[i] + 1
              /\ key_status'[i].last_success = now
              /\ key_status'[i].error_count = key_status[i].error_count
              /\ blocked_keys' = blocked_keys
              /\ \A j \in KeyIndices \ {i} :
                     /\ key_status'[j] = key_status[j]
                     /\ key_usage_count'[j] = key_usage_count[j]]_vars

\* mark_key_success was called, after the construction, for a key that a
\* restricted error had blocked and that 3 errors had made unhealthy: it is
\* healthy again and still blocked
MarkSuccessFrameWitness ==
    \E i \in blocked_keys :
        /\ key_status[i].healthy
        /\ key_status[i].error_count >= ERROR_THRESHOLD
        /\ key_status[i].last_success > 0
        /\ key_usage_count[i] > 0

\* C25: the status endpoint is read-only: the steps of api_status, which
\* are the steps of the health_check_all_keys it awaits, leave every key's
\* healthy flag, blocked flag, usage counter and error counter unchanged.
StatusReadOnly ==
    [][(probes' # probes \/ checking' # checking) =>
          /\ blocked_keys' = blocked_keys
          /\ key_usage_count' = key_usage_count
          /\ \A i \in KeyIndices :
                 /\ key_status'[i].healthy = key_status[i].healthy
                 /\ key_status'[i].error_count = key_status[i].error_count]_vars

\* C14: health_check_all_keys probes exactly the keys that are not blocked
\* when it starts; every probe that ends has called mark_key_success or
\* mark_key_error for its key (the usage counter or the error count of the
\* key has moved); a key enters blocked_keys only on an error text that
\* matches the restricted pattern; and no key ever leaves blocked_keys.
HealthCheckFeedsMarks ==
    [][/\ (~checking /\ checking') => probes' = KeyIndices \ blocked_keys
       /\ \A i \in probes \ probes' :
              \/ key_usage_count'[i] # key_usage_count[i]
              \/ key_status'[i].error_count # key_status[i].error_count
       /\ \A i \in blocked_keys' \ blocked_keys : i \in restrictedSeen'
       /\ blocked_keys \subseteq blocked_keys']_vars

\* C35: mark_key_success leaves a key's error_count unchanged and no
\* operation ever decreases it; once a key has 3 failures in total, every
\* mark_key_error on it sets healthy to false at once, however many
\* successes occurred in between.
ErrorCountNeverForgiven ==
    [][\A i \in KeyIndices :
          /\ key_status'[i].error_count >= key_status[i].error_count
          /\ key_usage_count'[i] # key_usage_count[i] =>
                 key_status'[i].error_count = key_status[i].error_count
          /\ (/\ key_status'[i].error_count > key_status[i].error_count
              /\ key_status'[i].error_count >= 3) =>
                 ~key_status'[i].healthy]_vars

\* a key failed 3 times, succeeded, and failed once more: it is unhealthy
\* after one failure in a row
ErrorCountNeverForgivenWitness ==
    \E i \in KeyIndices :
        /\ key_status[i].error_count = 4
        /\ key_usage_count[i] >= 1
        /\ consecutive[i] = 1
        /\ ~key_status[i].healthy

\* C4: a key is unhealthy only after 3 consecutive failures, that is 3
\* mark_key_error calls with no mark_key_success in between.
UnhealthyOnlyAfterThreeConsecutive ==
    \A i \in KeyIndices :
        ~key_status[i].healthy => consecutive[i] >= ERROR_THRESHOLD

(***************************************************************************)
(* The limiter on its own, used by NumCallers concurrent callers.          *)
(***************************************************************************)
InitLimiter ==
    /\ now = 0
    /\ max_rpm \in 1 .. MaxRpm
    /\ key_request_times = [k \in KeyIndices |-> <<>>]
    /\ current_key_index = 0
    /\ lock = Free
    /\ lockWaiters = <<>>
    /\ phase = [c \in Callers |-> "idle"]
    /\ attempts = [c \in Callers |-> 0]
    /\ best_key_index = [c \in Callers |-> 0]
    /\ wakeAt = [c \in Callers |-> 0]
    /\ calledAt = [c \in Callers |-> 0]
    /\ sweepStart = [c \in Callers |-> 0]
    /\ result = [c \in Callers |-> 0]
    /\ rr = <<>>
    /\ rrCursor = 0
    /\ key_status = FreshKeyStatus
    /\ key_usage_count = FreshUsage
    /\ blocked_keys = {}
    /\ probes = {}
    /\ checking = FALSE
    /\ restrictedSeen = {}
    /\ consecutive = [i \in KeyIndices |-> 0]
    /\ req_pc = [r \in Requests |-> "new"]
    /\ req_doc = [r \in Requests |-> NoDocument]
    /\ strategy = [r \in Requests |-> "none"]
    /\ req_questions = [r \in Requests |-> <<>>]
    /\ answers = [r \in Requests |-> <<>>]
    /\ response = [r \in Requests |-> <<>>]
    /\ task_pc = [p \in Procs |-> "none"]
    /\ task_answer = [p \in Procs |-> NoAnswer]
    /\ ANSWER_CACHE = <<>>
    /\ stored_collections = {}
    /\ storedFor = {}
    /\ overtaken = {}
    /\ issued = {}
    /\ hits = {}
    /\ pdf_pages = <<>>
    /\ clean_pages = <<>>
    /\ request_times = <<>>
    /\ retrieval = NoRetrieval
    /\ req_credentials = [r \in Requests |-> ValidCredentials]

NextLimiter ==
    \/ /\ \E c \in Callers : Enter(c)
       /\ UNCHANGED <<mgrVars, pipeVars, docVars, authVars, singleVars>>
    \/ /\ \E c \in Callers : Resume(c)
       /\ UNCHANGED <<mgrVars, pipeVars, docVars, authVars, singleVars>>
    \/ /\ \E c \in Callers : Sweep(c)
       /\ UNCHANGED <<mgrVars, pipeVars, docVars, authVars, singleVars>>
    \/ /\ \E c \in Callers : WaitForBestKey(c)
       /\ UNCHANGED <<mgrVars, pipeVars, docVars, authVars, singleVars>>
    \/ /\ \E c \in Callers : WakeUp(c)
       /\ UNCHANGED <<mgrVars, pipeVars, docVars, authVars, singleVars>>
    \/ /\ Tick
       /\ UNCHANGED <<mgrVars, pipeVars, docVars, authVars, singleVars>>

SpecLimiter == InitLimiter /\ [][NextLimiter]_vars

(***************************************************************************)
(* Properties of the limiter.                                              *)
(***************************************************************************)

\* C1: at the instant right after a call of get_next_available_key returns,
\* whether through the sweep or through the saturated wait path, the number
\* of timestamps recorded for the returned key within (t - 60, t] is at most
\* max_requests_per_minute; as requests are recorded only by a return, the
\* same then holds of every key at every instant.
WindowInvariant ==
    \A k \in KeyIndices : InWindow(k, now) <= max_rpm

\* a caller has just returned through the saturated wait path (the only
\* path that records without purging, so that more than max_rpm timestamps
\* are stored) and the window of its key is full
WindowWitness ==
    \E c \in DOMAIN phase :
        /\ phase[c] = "returned"
        /\ Len(key_request_times[result[c]]) > max_rpm
        /\ key_request_times[result[c]][Len(key_request_times[result[c]])] = now
        /\ InWindow(result[c], now) = max_rpm

\* the oldest timestamp recorded for key k
Oldest(k) ==
    CHOOSE t \in {key_request_times[k][i] : i \in DOMAIN key_request_times[k]} :
        \A i \in DOMAIN key_request_times[k] : t <= key_request_times[k][i]

\* C27: when the sweep finds no eligible key, get_next_available_key selects
\* the key whose oldest recorded timestamp is the smallest, sleeps until 61
\* seconds after that timestamp, then records a new timestamp for that key
\* and returns it.
SaturatedWait ==
    [][\A c \in DOMAIN phase :
          /\ (phase[c] = "wait" /\ phase'[c] = "sleeping") =>
                 LET k == best_key_index'[c]
                 IN  /\ key_request_times[k] # <<>>
                     /\ \A j \in KeyIndices :
                            key_request_times[j] # <<>> =>
                                Oldest(k) <= Oldest(j)
                     /\ wakeAt'[c] = Oldest(k) + 61
                     /\ key_request_times' = key_request_times
          /\ (phase[c] = "wait" => phase'[c] \in {"wait", "sleeping"})
          /\ (phase[c] = "sleeping" /\ phase'[c] # "sleeping") =>
                 LET k == best_key_index[c]
                 IN  /\ now >= wakeAt[c]
                     /\ phase'[c] = "returned"
                     /\ result'[c] = k
                     /\ key_request_times' =
                            [key_request_times EXCEPT ![k] = Append(@, now)]]_vars

\* a caller slept and returned the key of the older timestamp, the other
\* key holding a younger one
SaturatedWaitWitness ==
    \E c \in DOMAIN phase, k, j \in KeyIndices :
        /\ phase[c] = "returned"
        /\ result[c] = k
        /\ Len(key_request_times[k]) >= 2
        /\ key_request_times[k][Len(key_request_times[k])] = now
        /\ key_request_times[k][1] + 61 <= now
        /\ key_request_times[j] # <<>>
        /\ key_request_times[j][1] > key_request_times[k][1]

\* C28: the chosen key's stored window is purged before every admission,
\* the admission after the saturated wait included, so that at every instant
\* the stored timestamp list of every key has at most max_rpm entries.
StoredWindowBounded ==
    \A k \in KeyIndices : Len(key_request_times[k]) <= max_rpm

\* C34: while one caller sleeps in the saturated wait path the limiter lock
\* stays held: no other caller completes get_next_available_key, and no
\* timestamp is recorded, until the sleeper has recorded its own and
\* returned, even if the window of another key gets a free slot meanwhile.
LockHeldWhileSleeping ==
    [][\A c \in DOMAIN phase :
          phase[c] = "sleeping" =>
              /\ lock = {c}
              /\ \A d \in DOMAIN phase \ {c} :
                     phase'[d] = "returned" => phase[d] = "returned"
              /\ phase'[c] = "sleeping" =>
                     /\ key_request_times' = key_request_times
                     /\ lock' = {c}
              /\ phase'[c] # "sleeping" =>
                     /\ phase'[c] = "returned"
                     /\ Len(key_request_times'[best_key_index[c]]) =
                            Len(key_request_times[best_key_index[c]]) + 1]_vars

\* a caller sleeps, another waits for the lock, and the window of a key the
\* sleeper does not wait for has a free slot
LockHeldWhileSleepingWitness ==
    \E c, d \in DOMAIN phase, k \in KeyIndices :
        /\ phase[c] = "sleeping"
        /\ now < wakeAt[c]
        /\ phase[d] = "lockwait"
        /\ k # best_key_index[c]
        /\ InWindow(k, now) < max_rpm

CallTimeBounded ==
    \A c \in DOMAIN phase :
        phase[c] = "sleeping" => wakeAt[c] - calledAt[c] < WAIT_SPAN

\* C5: successive calls made with every window unsaturated return the keys
\* in cyclic index order starting at the cursor: key_count successive calls
\* return key_count distinct keys and the next call returns the first again,
\* whichever callers issue them.
RoundRobin ==
    /\ Len(rr) <= key_count + 1
    /\ \A j \in 1 .. Len(rr) : rr[j] = (rrCursor + j - 1) % key_count
    /\ \A i, j \in 1 .. Len(rr) :
           (i < j /\ j <= key_count) => rr[i] # rr[j]
    /\ Len(rr) = key_count + 1 => rr[key_count + 1] = rr[1]

\* key_count + 1 successive calls were made with every window unsaturated,
\* by two different callers
RoundRobinWitness ==
    /\ Len(rr) = key_count + 1
    /\ \E c, d \in DOMAIN phase :
           /\ c # d
           /\ phase[c] = "returned" /\ phase[d] = "returned"
           /\ result[c] # result[d]

(***************************************************************************)
(* The limiter on a fair event loop.  The loop runs every callback that is *)
(* ready before a second goes by, and the clock then advances to the end   *)
(* of the earliest pending asyncio.sleep.  A call is made only when the    *)
(* calls in progress and the new one can all end by LiveHorizon, each of   *)
(* them holding the lock for one sleep of at most WAIT_SPAN seconds.       *)
(***************************************************************************)
InProgress == {c \in DOMAIN phase : phase[c] \notin {"idle", "returned"}}

Sleepers == {c \in DOMAIN phase : phase[c] = "sleeping"}

\* the loop has a callback to run: a step of a call that does not wait for
\* the clock
Ready ==
    \/ \E c \in DOMAIN phase : phase[c] \in {"sweep", "wait"}
    \/ lock = Free /\ lockWaiters # <<>>
    \/ \E c \in Sleepers : SleepOver(c)

\* the end of the earliest pending sleep
NextTimer == CHOOSE t \in {wakeAt[c] : c \in Sleepers} :
                 \A c \in Sleepers : t <= wakeAt[c]

\* the loop is idle until the earliest pending sleep ends
Elapse ==
    /\ Sleepers # {}
    /\ ~Ready
    /\ NextTimer <= LiveHorizon
    /\ now' = NextTimer
    /\ UNCHANGED <<max_rpm, key_request_times, current_key_index, lock,
                   lockWaiters, phase, attempts, best_key_index, wakeAt,
                   result, rr, rrCursor, calledAt, sweepStart>>

InitLive ==
    /\ now = 0
    /\ max_rpm \in 1 .. MaxRpm
    /\ key_request_times = [k \in KeyIndices |-> <<>>]
    /\ current_key_index = 0
    /\ lock = Free
    /\ lockWaiters = <<>>
    /\ phase = [c \in Callers |-> "idle"]
    /\ attempts = [c \in Callers |-> 0]
    /\ best_key_index = [c \in Callers |-> 0]
    /\ wakeAt = [c \in Callers |-> 0]
    /\ calledAt = [c \in Callers |-> 0]
    /\ sweepStart = [c \in Callers |-> 0]
    /\ result = [c \in Callers |-> 0]
    /\ rr = <<>>
    /\ rrCursor = 0
    /\ key_status = FreshKeyStatus
    /\ key_usage_count = FreshUsage
    /\ blocked_keys = {}
    /\ probes = {}
    /\ checking = FALSE
    /\ restrictedSeen = {}
    /\ consecutive = [i \in KeyIndices |-> 0]
    /\ req_pc = [r \in Requests |-> "new"]
    /\ req_doc = [r \in Requests |-> NoDocument]
    /\ strategy = [r \in Requests |-> "none"]
    /\ req_questions = [r \in Requests |-> <<>>]
    /\ answers = [r \in Requests |-> <<>>]
    /\ response = [r \in Requests |-> <<>>]
    /\ task_pc = [p \in Procs |-> "none"]
    /\ task_answer = [p \in Procs |-> NoAnswer]
    /\ ANSWER_CACHE = <<>>
    /\ stored_collections = {}
    /\ storedFor = {}
    /\ overtaken = {}
    /\ issued = {}
    /\ hits = {}
    /\ pdf_pages = <<>>
    /\ clean_pages = <<>>
    /\ request_times = <<>>
    /\ retrieval = NoRetrieval
    /\ req_credentials = [r \in Requests |-> ValidCredentials]

NextLive ==
    \/ /\ \E c \in Callers :
             /\ now + WAIT_SPAN * (Cardinality(InProgress) + 1) <= LiveHorizon
             /\ Enter(c)
       /\ UNCHANGED <<mgrVars, pipeVars, docVars, authVars, singleVars>>
    \/ /\ \E c \in Callers : Resume(c)
       /\ UNCHANGED <<mgrVars, pipeVars, docVars, authVars, singleVars>>
    \/ /\ \E c \in Callers : Sweep(c)
       /\ UNCHANGED <<mgrVars, pipeVars, docVars, authVars, singleVars>>
    \/ /\ \E c \in Callers : WaitForBestKey(c)
       /\ UNCHANGED <<mgrVars, pipeVars, docVars, authVars, singleVars>>
    \/ /\ \E c \in Callers : WakeUp(c)
       /\ UNCHANGED <<mgrVars, pipeVars, docVars, authVars, singleVars>>
    \/ /\ Elapse
       /\ UNCHANGED <<mgrVars, pipeVars, docVars, authVars, singleVars>>

\* the loop runs every ready step of every call, and time advances
FairLive ==
    /\ \A c \in Callers :
           /\ WF_vars(Resume(c) /\ UNCHANGED <<mgrVars, pipeVars, docVars, authVars, singleVars>>)
           /\ WF_vars(Sweep(c) /\ UNCHANGED <<mgrVars, pipeVars, docVars, authVars, singleVars>>)
           /\ WF_vars(WaitForBestKey(c) /\ UNCHANGED <<mgrVars, pipeVars, docVars, authVars, singleVars>>)
           /\ WF_vars(WakeUp(c) /\ UNCHANGED <<mgrVars, pipeVars, docVars, authVars, singleVars>>)
    /\ WF_vars(Elapse /\ UNCHANGED <<mgrVars, pipeVars, docVars, authVars, singleVars>>)

SpecLive == InitLive /\ [][NextLive]_vars /\ FairLive

Init ==
    /\ now = 0
    /\ max_rpm = DEFAULT_RPM
    /\ key_request_times = [k \in KeyIndices |-> <<>>]
    /\ current_key_index = 0
    /\ lock = Free
    /\ lockWaiters = <<>>
    /\ phase = [p \in Procs |-> "idle"]
    /\ attempts = [p \in Procs |-> 0]
    /\ best_key_index = [p \in Procs |-> 0]
    /\ wakeAt = [p \in Procs |-> 0]
    /\ calledAt = [p \in Procs |-> 0]
    /\ sweepStart = [p \in Procs |-> 0]
    /\ result = [p \in Procs |-> 0]
    /\ rr = <<>>
    /\ rrCursor = 0
    /\ blocked_keys \in SUBSET KeyIndices
    /\ restrictedSeen = blocked_keys
    /\ key_status = [i \in KeyIndices |->
           [healthy |-> TRUE,
            error_count |-> IF i \in blocked_keys THEN 1 ELSE 0,
            last_success |-> 0]]
    /\ key_usage_count = FreshUsage
    /\ consecutive = [i \in KeyIndices |-> IF i \in blocked_keys THEN 1 ELSE 0]
    /\ probes = {}
    /\ checking = FALSE
    /\ req_pc = [r \in Requests |-> "new"]
    /\ req_doc = [r \in Requests |-> NoDocument]
    /\ strategy = [r \in Requests |-> "none"]
    /\ req_questions = [r \in Requests |-> <<>>]
    /\ answers = [r \in Requests |-> <<>>]
    /\ response = [r \in Requests |-> <<>>]
    /\ task_pc = [p \in Procs |-> "none"]
    /\ task_answer = [p \in Procs |-> NoAnswer]
    /\ ANSWER_CACHE = <<>>
    /\ stored_collections = {}
    /\ storedFor = {}
    /\ overtaken = {}
    /\ issued = {}
    /\ hits = {}
    /\ pdf_pages = <<>>
    /\ clean_pages = <<>>
    /\ request_times = <<>>
    /\ retrieval = NoRetrieval
    /\ req_credentials = [r \in Requests |-> ValidCredentials]

Next ==
    \/ /\ \E r \in Requests, doc \in Documents, questions \in QuestionLists :
             /\ QuestionsAsked + Len(questions) <= MaxTasks
             /\ StartRequest(r, doc, questions)
       /\ UNCHANGED <<mgrVars, docVars, authVars, singleVars>>
    \/ /\ \E r \in Requests : RequestFails(r)
       /\ UNCHANGED <<mgrVars, docVars, authVars, singleVars>>
    \/ /\ \E r \in Requests : IngestDone(r)
       /\ UNCHANGED <<mgrVars, docVars, authVars, singleVars>>
    \/ /\ \E r \in Requests : TasksBegin(r)
       /\ UNCHANGED <<mgrVars, docVars, authVars, singleVars>>
    \/ /\ \E p \in Procs : RetrievalDone(p)
       /\ UNCHANGED <<mgrVars, docVars, authVars, singleVars>>
    \/ /\ \E p \in Procs : RetrievalFails(p)
       /\ UNCHANGED <<mgrVars, docVars, authVars, singleVars>>
    \/ /\ \E p \in Procs, outcome \in Outcomes : LlmDone(p, outcome)
       /\ UNCHANGED <<mgrVars, docVars, authVars, singleVars>>
    \/ /\ \E p \in Procs : BackoffDone(p)
       /\ UNCHANGED <<mgrVars, docVars, authVars, singleVars>>
    \/ /\ \E r \in Requests : Respond(r)
       /\ UNCHANGED <<mgrVars, docVars, authVars, singleVars>>
    \/ /\ \E p \in Procs, outcome \in Outcomes : DirectLlmDone(p, outcome)
       /\ UNCHANGED <<mgrVars, docVars, authVars, singleVars>>

Spec == Init /\ [][Next]_vars

(***************************************************************************)
(* The cache under health checks: requests for the documents routed to the *)
(* retrieval strategy, while GET /api-status runs health checks.  The run  *)
(* is followed up to the first health check that marks a key.              *)
(***************************************************************************)
RagDocuments ==
    {doc \in Documents : analyze_document_strategy(doc) = "rag"}

InitCache ==
    /\ now = 0
    /\ max_rpm = DEFAULT_RPM
    /\ key_request_times = [k \in KeyIndices |-> <<>>]
    /\ current_key_index = 0
    /\ lock = Free
    /\ lockWaiters = <<>>
    /\ phase = [p \in Procs |-> "idle"]
    /\ attempts = [p \in Procs |-> 0]
    /\ best_key_index = [p \in Procs |-> 0]
    /\ wakeAt = [p \in Procs |-> 0]
    /\ calledAt = [p \in Procs |-> 0]
    /\ sweepStart = [p \in Procs |-> 0]
    /\ result = [p \in Procs |-> 0]
    /\ rr = <<>>
    /\ rrCursor = 0
    /\ key_status = FreshKeyStatus
    /\ key_usage_count = FreshUsage
    /\ blocked_keys = {}
    /\ probes = {}
    /\ checking = FALSE
    /\ restrictedSeen = {}
    /\ consecutive = [i \in KeyIndices |-> 0]
    /\ req_pc = [r \in Requests |-> "new"]
    /\ req_doc = [r \in Requests |-> NoDocument]
    /\ strategy = [r \in Requests |-> "none"]
    /\ req_questions = [r \in Requests |-> <<>>]
    /\ answers = [r \in Requests |-> <<>>]
    /\ response = [r \in Requests |-> <<>>]
    /\ task_pc = [p \in Procs |-> "none"]
    /\ task_answer = [p \in Procs |-> NoAnswer]
    /\ ANSWER_CACHE = <<>>
    /\ stored_collections = {}
    /\ storedFor = {}
    /\ overtaken = {}
    /\ issued = {}
    /\ hits = {}
    /\ pdf_pages = <<>>
    /\ clean_pages = <<>>
    /\ request_times = <<>>
    /\ retrieval = NoRetrieval
    /\ req_credentials = [r \in Requests |-> ValidCredentials]

NextCache ==
    \/ /\ \E r \in Requests, doc \in RagDocuments, questions \in QuestionLists :
             /\ QuestionsAsked + Len(questions) <= MaxTasks
             /\ StartRequest(r, doc, questions)
       /\ UNCHANGED <<mgrVars, docVars, authVars, singleVars>>
    \/ /\ \E r \in Requests : IngestDone(r)
       /\ UNCHANGED <<mgrVars, docVars, authVars, singleVars>>
    \/ /\ \E r \in Requests : TasksBegin(r)
       /\ UNCHANGED <<mgrVars, docVars, authVars, singleVars>>
    \/ /\ \E p \in Procs : RetrievalDone(p)
       /\ UNCHANGED <<mgrVars, docVars, authVars, singleVars>>
    \/ /\ \E p \in Procs, outcome \in Outcomes : LlmDone(p, outcome)
       /\ UNCHANGED <<mgrVars, docVars, authVars, singleVars>>
    \/ /\ \E p \in Procs : BackoffDone(p)
       /\ UNCHANGED <<mgrVars, docVars, authVars, singleVars>>
    \/ /\ \E r \in Requests : Respond(r)
       /\ UNCHANGED <<mgrVars, docVars, authVars, singleVars>>
    \/ /\ Marks = 0
       /\ HealthCheckStart
       /\ UNCHANGED <<limVars, pipeVars, docVars, authVars, singleVars>>
    \/ /\ \E i \in KeyIndices : ProbeSuccess(i)
       /\ UNCHANGED <<limVars, pipeVars, docVars, authVars, singleVars>>
    \/ /\ \E i \in KeyIndices : ProbeEmpty(i)
       /\ UNCHANGED <<limVars, pipeVars, docVars, authVars, singleVars>>
    \/ /\ \E i \in KeyIndices, error \in ErrorTexts : ProbeError(i, error)
       /\ UNCHANGED <<limVars, pipeVars, docVars, authVars, singleVars>>
    \/ /\ HealthCheckFinish
       /\ UNCHANGED <<limVars, pipeVars, docVars, authVars, singleVars>>

SpecCache == InitCache /\ [][NextCache]_vars

(***************************************************************************)
(* A burst: one request for a document routed to the retrieval strategy,   *)
(* with one question more than API_CONCURRENCY_LIMIT, followed while the   *)
(* provider has not yet answered any of its LLM calls.                     *)
(***************************************************************************)
BurstSize == API_CONCURRENCY_LIMIT + 1
BurstRequest == CHOOSE r \in Requests : \A s \in Requests : r <= s
BurstProcs == {BurstRequest} \X (1 .. BurstSize)
BurstQuestions == [i \in 1 .. BurstSize |-> QuestionAb]

InitBurst ==
    /\ now = 0
    /\ max_rpm = DEFAULT_RPM
    /\ key_request_times = [k \in KeyIndices |-> <<>>]
    /\ current_key_index = 0
    /\ lock = Free
    /\ lockWaiters = <<>>
    /\ phase = [p \in BurstProcs |-> "idle"]
    /\ attempts = [p \in BurstProcs |-> 0]
    /\ best_key_index = [p \in BurstProcs |-> 0]
    /\ wakeAt = [p \in BurstProcs |-> 0]
    /\ calledAt = [p \in BurstProcs |-> 0]
    /\ sweepStart = [p \in BurstProcs |-> 0]
    /\ result = [p \in BurstProcs |-> 0]
    /\ rr = <<>>
    /\ rrCursor = 0
    /\ key_status = FreshKeyStatus
    /\ key_usage_count = FreshUsage
    /\ blocked_keys = {}
    /\ probes = {}
    /\ checking = FALSE
    /\ restrictedSeen = {}
    /\ consecutive = [i \in KeyIndices |-> 0]
    /\ req_pc = [r \in Requests |-> "new"]
    /\ req_doc = [r \in Requests |-> NoDocument]
    /\ strategy = [r \in Requests |-> "none"]
    /\ req_questions = [r \in Requests |-> <<>>]
    /\ answers = [r \in Requests |-> <<>>]
    /\ response = [r \in Requests |-> <<>>]
    /\ task_pc = [p \in BurstProcs |-> "none"]
    /\ task_answer = [p \in BurstProcs |-> NoAnswer]
    /\ ANSWER_CACHE = <<>>
    /\ stored_collections = {}
    /\ storedFor = {}
    /\ overtaken = {}
    /\ issued = {}
    /\ hits = {}
    /\ pdf_pages = <<>>
    /\ clean_pages = <<>>
    /\ request_times = <<>>
    /\ retrieval = NoRetrieval
    /\ req_credentials = [r \in Requests |-> ValidCredentials]

NextBurst ==
    \/ /\ \E doc \in RagDocuments :
             StartRequest(BurstRequest, doc, BurstQuestions)
       /\ UNCHANGED <<mgrVars, docVars, authVars, singleVars>>
    \/ /\ IngestDone(BurstRequest)
       /\ UNCHANGED <<mgrVars, docVars, authVars, singleVars>>
    \/ /\ TasksBegin(BurstRequest)
       /\ UNCHANGED <<mgrVars, docVars, authVars, singleVars>>
    \/ /\ \E p \in BurstProcs : RetrievalDone(p)
       /\ UNCHANGED <<mgrVars, docVars, authVars, singleVars>>

SpecBurst == InitBurst /\ [][NextBurst]_vars

(***************************************************************************)
(* The document router: one request, without questions, for a document of  *)
(* any of the sizes, page counts, scores and URLs below.                   *)
(***************************************************************************)
RouterRequest == CHOOSE r \in Requests : \A s \in Requests : r <= s

\* sizes (MB), page counts and keyword scores on both sides of every
\* threshold of analyze_document_strategy
RouterSizes == {1, 2, 3, 10, 11, 15}
RouterPages == {50, 100, 101, 200, 201, 250}
RouterInsuranceScores == {0, 1, 2, 3, 4, 5, 6}
RouterGeneralScores == {0, 1, 2, 3, 4, 6}
RouterUrls == {<<>>, UrlPolicy, UrlTextBook}

RouterDocuments ==
    {Document(url, size_mb, total_pages, insurance_score, general_score) :
        url \in RouterUrls, size_mb \in RouterSizes,
        total_pages \in RouterPages,
        insurance_score \in RouterInsuranceScores,
        general_score \in RouterGeneralScores}

InitRouter ==
    /\ now = 0
    /\ max_rpm = DEFAULT_RPM
    /\ key_request_times = [k \in KeyIndices |-> <<>>]
    /\ current_key_index = 0
    /\ lock = Free
    /\ lockWaiters = <<>>
    /\ phase = [p \in Procs |-> "idle"]
    /\ attempts = [p \in Procs |-> 0]
    /\ best_key_index = [p \in Procs |-> 0]
    /\ wakeAt = [p \in Procs |-> 0]
    /\ calledAt = [p \in Procs |-> 0]
    /\ sweepStart = [p \in Procs |-> 0]
    /\ result = [p \in Procs |-> 0]
    /\ rr = <<>>
    /\ rrCursor = 0
    /\ key_status = FreshKeyStatus
    /\ key_usage_count = FreshUsage
    /\ blocked_keys = {}
    /\ probes = {}
    /\ checking = FALSE
    /\ restrictedSeen = {}
    /\ consecutive = [i \in KeyIndices |-> 0]
    /\ req_pc = [r \in Requests |-> "new"]
    /\ req_doc = [r \in Requests |-> NoDocument]
    /\ strategy = [r \in Requests |-> "none"]
    /\ req_questions = [r \in Requests |-> <<>>]
    /\ answers = [r \in Requests |-> <<>>]
    /\ response = [r \in Requests |-> <<>>]
    /\ task_pc = [p \in Procs |-> "none"]
    /\ task_answer = [p \in Procs |-> NoAnswer]
    /\ ANSWER_CACHE = <<>>
    /\ stored_collections = {}
    /\ storedFor = {}
    /\ overtaken = {}
    /\ issued = {}
    /\ hits = {}
    /\ pdf_pages = <<>>
    /\ clean_pages = <<>>
    /\ request_times = <<>>
    /\ retrieval = NoRetrieval
    /\ req_credentials = [r \in Requests |-> ValidCredentials]

NextRouter ==
    \/ /\ \E doc \in RouterDocuments \cup
                      {Unreadable(d) : d \in RouterDocuments} :
             StartRequest(RouterRequest, doc, <<>>)
       /\ UNCHANGED <<mgrVars, docVars, authVars, singleVars>>
    \/ /\ IngestDone(RouterRequest)
       /\ UNCHANGED <<mgrVars, docVars, authVars, singleVars>>

SpecRouter == InitRouter /\ [][NextRouter]_vars

(***************************************************************************)
(* The header and footer stripping of get_and_chunk_pdf and                *)
(* process_single_page (app/document_processor.py).  The text of a page is *)
(* the sequence of its lines.                                              *)
(***************************************************************************)
LineHeader == <<"C", "o", "n", "f", "i", "d", "e", "n", "t", "i", "a", "l">>
LineIndented == <<" ">> \o LineHeader \o <<" ">>
LineShort == <<"P", "a", "g", "e", " ", "1", " ", "o", "f", "2">>
LineBody == <<"c", "o", "v", "e", "r", "s", " ", "t", "h", "e", "f", "t">>
LinePool == {LineHeader, LineIndented, LineShort, LineBody}

\* page.get_text("text").splitlines()
PageTexts == UNION {[1 .. n -> LinePool] : n \in 0 .. MaxLines}

\* the documents of 0 to MaxPages pages
PdfDocuments == UNION {[1 .. n -> PageTexts] : n \in 0 .. MaxPages}

\* {line.strip() for line in page_text.splitlines() if line.strip()}
lines_on_page(page_text) ==
    {Strip(page_text[i]) : i \in DOMAIN page_text} \ {<<>>}

\* repeated_line_counts[line] after the loop over the pages
repeated_line_counts(doc, line) ==
    Cardinality({n \in DOMAIN doc : line \in lines_on_page(doc[n])})

\* count == total_pages and len(line) > 10
IsRepeatedMut(count, total_pages, line) ==
    count >= total_pages - 1 /\ Len(line) > HEADER_MIN_LEN
IsRepeated(count, total_pages, line) ==
    count = total_pages /\ Len(line) > HEADER_MIN_LEN

repeated_linesMut(doc) ==
    {line \in UNION {lines_on_page(doc[n]) : n \in DOMAIN doc} :
        /\ Len(doc) > 1
        /\ IsRepeated(repeated_line_counts(doc, line), Len(doc), line)}

repeated_lines(doc) ==
    {line \in UNION {lines_on_page(doc[n]) : n \in DOMAIN doc} :
        IsRepeated(repeated_line_counts(doc, line), Len(doc), line)}

\* [line for line in lines if line.strip() not in repeated_lines]
clean_lines(page_text, repeated) ==
    SelectSeq(page_text, LAMBDA line : Strip(line) \notin repeated)

\* "\n".join(lines).strip(): the white space before the first and after the
\* last character that is not white space goes, empty lines included
RECURSIVE JoinLStrip(_)
JoinLStrip(lines) ==
    IF lines = <<>> THEN <<>>
    ELSE IF LStrip(Head(lines)) = <<>> THEN JoinLStrip(Tail(lines))
    ELSE <<LStrip(Head(lines))>> \o Tail(lines)

RECURSIVE JoinRStrip(_)
JoinRStrip(lines) ==
    IF lines = <<>> THEN <<>>
    ELSE IF RStrip(lines[Len(lines)]) = <<>>
    THEN JoinRStrip(SubSeq(lines, 1, Len(lines) - 1))
    ELSE SubSeq(lines, 1, Len(lines) - 1) \o <<RStrip(lines[Len(lines)])>>

clean_page_text(page_text, repeated) ==
    JoinRStrip(JoinLStrip(clean_lines(page_text, repeated)))

\* get_and_chunk_pdf up to the text handed to the splitter of every page;
\* a document without pages returns at once
ChunkPdf(doc) ==
    /\ pdf_pages = <<>>
    /\ clean_pages = <<>>
    /\ retrieval = NoRetrieval
    /\ pdf_pages' = doc
    /\ clean_pages' =
           IF Len(doc) = 0 THEN <<>>
           ELSE [n \in DOMAIN doc |->
                    clean_page_text(doc[n], repeated_lines(doc))]
    /\ UNCHANGED retrieval

InitChunk ==
    /\ now = 0
    /\ max_rpm = DEFAULT_RPM
    /\ key_request_times = [k \in KeyIndices |-> <<>>]
    /\ current_key_index = 0
    /\ lock = Free
    /\ lockWaiters = <<>>
    /\ phase = [p \in Procs |-> "idle"]
    /\ attempts = [p \in Procs |-> 0]
    /\ best_key_index = [p \in Procs |-> 0]
    /\ wakeAt = [p \in Procs |-> 0]
    /\ calledAt = [p \in Procs |-> 0]
    /\ sweepStart = [p \in Procs |-> 0]
    /\ result = [p \in Procs |-> 0]
    /\ rr = <<>>
    /\ rrCursor = 0
    /\ key_status = FreshKeyStatus
    /\ key_usage_count = FreshUsage
    /\ blocked_keys = {}
    /\ probes = {}
    /\ checking = FALSE
    /\ restrictedSeen = {}
    /\ consecutive = [i \in KeyIndices |-> 0]
    /\ req_pc = [r \in Requests |-> "new"]
    /\ req_doc = [r \in Requests |-> NoDocument]
    /\ strategy = [r \in Requests |-> "none"]
    /\ req_questions = [r \in Requests |-> <<>>]
    /\ answers = [r \in Requests |-> <<>>]
    /\ response = [r \in Requests |-> <<>>]
    /\ task_pc = [p \in Procs |-> "none"]
    /\ task_answer = [p \in Procs |-> NoAnswer]
    /\ ANSWER_CACHE = <<>>
    /\ stored_collections = {}
    /\ storedFor = {}
    /\ overtaken = {}
    /\ issued = {}
    /\ hits = {}
    /\ pdf_pages = <<>>
    /\ clean_pages = <<>>
    /\ request_times = <<>>
    /\ retrieval = NoRetrieval
    /\ req_credentials = [r \in Requests |-> ValidCredentials]

NextChunk ==
    \E doc \in PdfDocuments :
        /\ ChunkPdf(doc)
        /\ UNCHANGED <<limVars, mgrVars, pipeVars, authVars, singleVars>>

SpecChunk == InitChunk /\ [][NextChunk]_vars

\* the trimmed lines left on page n
LinesLeft(n) == {Strip(clean_pages[n][i]) : i \in DOMAIN clean_pages[n]}

\* the pages the trimmed line occurs on
PagesWith(line) == {n \in DOMAIN pdf_pages : line \in lines_on_page(pdf_pages[n])}

\* C19: for a document of N pages, a trimmed line of more than 10 characters
\* that occurs on all N pages is on no page handed to the splitter, and a
\* line that occurs on only N - 1 of the N pages, or that has 10 characters
\* or less, is still on every page it occurs on.
HeaderFooterStripped ==
    \A n \in DOMAIN pdf_pages : \A line \in lines_on_page(pdf_pages[n]) :
        LET N == Len(pdf_pages)
            occurs == Cardinality(PagesWith(line))
        IN  /\ (Len(line) > 10 /\ occurs = N) => line \notin LinesLeft(n)
            /\ (Len(line) <= 10 \/ occurs = N - 1) => line \in LinesLeft(n)

\* a document of 3 pages with a long line on all of them and another long
\* line on only 2 of them was cleaned
HeaderFooterStrippedWitness ==
    /\ Len(pdf_pages) = 3
    /\ \E line \in lines_on_page(pdf_pages[1]) :
           Len(line) > 10 /\ Cardinality(PagesWith(line)) = 3
    /\ \E line \in lines_on_page(pdf_pages[1]) :
           Len(line) > 10 /\ Cardinality(PagesWith(line)) = 2
    /\ Len(clean_pages) = 3

\* C36: for a document of exactly one page every trimmed line of more than
\* 10 characters is taken as a header or footer and stripped, the shorter
\* lines stay, and when all the lines of the page have more than 10
\* characters the page yields no text to chunk, so that get_and_chunk_pdf
\* returns an empty list.
SinglePageStripped ==
    Len(pdf_pages) = 1 =>
        LET trimmed == {Strip(pdf_pages[1][i]) : i \in DOMAIN pdf_pages[1]}
            left == {Strip(clean_pages[1][i]) : i \in DOMAIN clean_pages[1]}
        IN  /\ Len(clean_pages) = 1
            /\ \A line \in trimmed :
                   /\ Len(line) > 10 => line \notin left
                   /\ (Len(line) <= 10 /\ line # <<>>) => line \in left
            /\ (\A line \in trimmed : Len(line) > 10) =>
                   clean_pages[1] = <<>>

\* a page of two lines of 12 characters was cleaned
SinglePageStrippedWitness ==
    /\ Len(pdf_pages) = 1
    /\ Len(pdf_pages[1]) = 2
    /\ pdf_pages[1][1] # pdf_pages[1][2]
    /\ \A i \in DOMAIN pdf_pages[1] : Len(Strip(pdf_pages[1][i])) = 12
    /\ clean_pages = <<<<>>>>

(***************************************************************************)
(* The service with no key configured: config.GROQ_API_KEYS is empty, the  *)
(* import of app.config only prints an error, APIKeyManager tracks no key  *)
(* and no limiter is built before its first use.                           *)
(***************************************************************************)
\* run_query_pipeline for a document of the direct strategy:
\* answer_direct_llm calls get_rate_limiter, create_rate_limiter raises
\* ValueError and run_query_pipeline turns it into HTTP 500
DirectWithoutLimiter(r, doc, questions) ==
    /\ req_pc[r] = "new"
    /\ \A s \in Requests : s < r => req_pc[s] # "new"
    /\ analyze_document_strategy(doc) = "direct_llm"
    /\ req_doc' = [req_doc EXCEPT ![r] = doc]
    /\ strategy' = [strategy EXCEPT ![r] = analyze_document_strategy(doc)]
    /\ req_questions' = [req_questions EXCEPT ![r] = questions]
    /\ req_pc' = [req_pc EXCEPT ![r] = "failed"]
    /\ UNCHANGED <<limVars, answers, response, task_pc, task_answer,
                   ANSWER_CACHE, stored_collections, storedFor, overtaken,
                   issued, hits>>

InitNoKeys ==
    /\ now = 0
    /\ max_rpm = DEFAULT_RPM
    /\ key_request_times = <<>>
    /\ current_key_index = 0
    /\ lock = Free
    /\ lockWaiters = <<>>
    /\ phase = [p \in Procs |-> "idle"]
    /\ attempts = [p \in Procs |-> 0]
    /\ best_key_index = [p \in Procs |-> 0]
    /\ wakeAt = [p \in Procs |-> 0]
    /\ calledAt = [p \in Procs |-> 0]
    /\ sweepStart = [p \in Procs |-> 0]
    /\ result = [p \in Procs |-> 0]
    /\ rr = <<>>
    /\ rrCursor = 0
    /\ key_status = <<>>
    /\ key_usage_count = <<>>
    /\ blocked_keys = {}
    /\ probes = {}
    /\ checking = FALSE
    /\ restrictedSeen = {}
    /\ consecutive = [i \in KeyIndices |-> 0]
    /\ req_pc = [r \in Requests |-> "new"]
    /\ req_doc = [r \in Requests |-> NoDocument]
    /\ strategy = [r \in Requests |-> "none"]
    /\ req_questions = [r \in Requests |-> <<>>]
    /\ answers = [r \in Requests |-> <<>>]
    /\ response = [r \in Requests |-> <<>>]
    /\ task_pc = [p \in Procs |-> "none"]
    /\ task_answer = [p \in Procs |-> NoAnswer]
    /\ ANSWER_CACHE = <<>>
    /\ stored_collections = {}
    /\ storedFor = {}
    /\ overtaken = {}
    /\ issued = {}
    /\ hits = {}
    /\ pdf_pages = <<>>
    /\ clean_pages = <<>>
    /\ request_times = <<>>
    /\ retrieval = NoRetrieval
    /\ req_credentials = [r \in Requests |-> ValidCredentials]

NextNoKeys ==
    \/ /\ \E r \in Requests, doc \in RagDocuments, questions \in QuestionLists :
             StartRequest(r, doc, questions)
       /\ UNCHANGED <<mgrVars, docVars, authVars, singleVars>>
    \/ /\ \E r \in Requests, doc \in Documents, questions \in QuestionLists :
             DirectWithoutLimiter(r, doc, questions)
       /\ UNCHANGED <<mgrVars, docVars, authVars, singleVars>>
    \/ /\ \E r \in Requests : RequestFails(r)
       /\ UNCHANGED <<mgrVars, docVars, authVars, singleVars>>
    \/ /\ \E r \in Requests : IngestDone(r)
       /\ UNCHANGED <<mgrVars, docVars, authVars, singleVars>>
    \/ /\ \E r \in Requests : TasksBegin(r)
       /\ UNCHANGED <<mgrVars, docVars, authVars, singleVars>>
    \/ /\ \E r \in Requests : Respond(r)
       /\ UNCHANGED <<mgrVars, docVars, authVars, singleVars>>

SpecNoKeys == InitNoKeys /\ [][NextNoKeys]_vars

\* C20: with no key configured the service refuses to serve: no request to
\* run_query_pipeline is answered with a list of answers.
NoAnswersWithoutKeys ==
    \A r \in Requests :
        DOMAIN key_status = {} => req_pc[r] # "responded"

(***************************************************************************)
(* retrieve_context on every query of the pool, every collection of up to  *)
(* MaxChunks chunks and every scoring of the candidates.                   *)
(***************************************************************************)
InitRetrieve ==
    /\ now = 0
    /\ max_rpm = DEFAULT_RPM
    /\ key_request_times = [k \in KeyIndices |-> <<>>]
    /\ current_key_index = 0
    /\ lock = Free
    /\ lockWaiters = <<>>
    /\ phase = [p \in Procs |-> "idle"]
    /\ attempts = [p \in Procs |-> 0]
    /\ best_key_index = [p \in Procs |-> 0]
    /\ wakeAt = [p \in Procs |-> 0]
    /\ calledAt = [p \in Procs |-> 0]
    /\ sweepStart = [p \in Procs |-> 0]
    /\ result = [p \in Procs |-> 0]
    /\ rr = <<>>
    /\ rrCursor = 0
    /\ key_status = FreshKeyStatus
    /\ key_usage_count = FreshUsage
    /\ blocked_keys = {}
    /\ probes = {}
    /\ checking = FALSE
    /\ restrictedSeen = {}
    /\ consecutive = [i \in KeyIndices |-> 0]
    /\ req_pc = [r \in Requests |-> "new"]
    /\ req_doc = [r \in Requests |-> NoDocument]
    /\ strategy = [r \in Requests |-> "none"]
    /\ req_questions = [r \in Requests |-> <<>>]
    /\ answers = [r \in Requests |-> <<>>]
    /\ response = [r \in Requests |-> <<>>]
    /\ task_pc = [p \in Procs |-> "none"]
    /\ task_answer = [p \in Procs |-> NoAnswer]
    /\ ANSWER_CACHE = <<>>
    /\ stored_collections = {}
    /\ storedFor = {}
    /\ overtaken = {}
    /\ issued = {}
    /\ hits = {}
    /\ pdf_pages = <<>>
    /\ clean_pages = <<>>
    /\ request_times = <<>>
    /\ \E query \in QueryPool, count \in 0 .. MaxChunks :
          \E scores \in [1 .. count -> 0 .. MaxScore] :
              retrieval = RetrievalCall(query, count, scores)
    /\ req_credentials = [r \in Requests |-> ValidCredentials]

NextRetrieve ==
    /\ RetrieveContext
    /\ UNCHANGED <<limVars, mgrVars, pipeVars, authVars, singleVars>>

SpecRetrieve == InitRetrieve /\ [][NextRetrieve]_vars

\* the score the cross encoder gave a candidate
ScoreOf(doc) ==
    retrieval.cross_scores[
        CHOOSE i \in DOMAIN retrieval.initial_documents :
            retrieval.initial_documents[i] = doc]

\* C24: retrieve_context returns the empty string on an empty candidate
\* set; otherwise at most k_final sections, k_final in {4,5,6} and at most
\* k_candidates in {8,10,12}: the candidates with the highest scores, in
\* descending order of score, numbered [Section 1], [Section 2], ...
RetrievalTopK ==
    retrieval.pc = "returned" =>
        LET candidates == {retrieval.initial_documents[i] :
                              i \in DOMAIN retrieval.initial_documents}
            final == retrieval.final_docs
            chosen == {final[i] : i \in DOMAIN final}
        IN  /\ candidates = {} => retrieval.final_context = <<>>
            /\ retrieval.k_final \in {4, 5, 6}
            /\ retrieval.k_candidates \in {8, 10, 12}
            /\ retrieval.k_final <= retrieval.k_candidates
            /\ Cardinality(candidates) <= retrieval.k_candidates
            /\ Len(final) <= retrieval.k_final
            /\ Len(final) = Cardinality(chosen)
            /\ chosen \subseteq candidates
            /\ Cardinality(candidates) >= retrieval.k_final =>
                   Len(final) = retrieval.k_final
            /\ Cardinality(candidates) < retrieval.k_final =>
                   chosen = candidates
            /\ \A doc \in chosen, other \in candidates \ chosen :
                   ScoreOf(doc) >= ScoreOf(other)
            /\ \A i, j \in DOMAIN final :
                   i < j => ScoreOf(final[i]) >= ScoreOf(final[j])
            /\ candidates # {} =>
                   /\ \A i \in DOMAIN final :
                          Contains(retrieval.final_context,
                                   <<"[", "S", "e", "c", "t", "i", "o", "n",
                                     " ", Digits[i], "]", " ">>
                                       \o Strip(final[i]))
                   /\ ~Contains(retrieval.final_context,
                                <<"n", " ", Digits[Len(final) + 1], "]">>)

RetrievalTopKWitness ==
    /\ retrieval.pc = "returned"
    /\ retrieval.k_final = 6
    /\ Len(retrieval.initial_documents) = 7
    /\ Len(retrieval.final_docs) = 6
    /\ ScoreOf(retrieval.initial_documents[1]) = 0
    /\ ScoreOf(retrieval.initial_documents[7]) = MaxScore
    /\ retrieval.final_docs[1] # retrieval.initial_documents[1]

(***************************************************************************)
(* The single-key limiter on its own, used by NumCallers concurrent        *)
(* callers; no call has returned a key yet.                                *)
(***************************************************************************)
InitSingle ==
    /\ now = 0
    /\ max_rpm \in 1 .. MaxRpm
    /\ key_request_times = [k \in KeyIndices |-> <<>>]
    /\ current_key_index = 0
    /\ lock = Free
    /\ lockWaiters = <<>>
    /\ phase = [c \in Callers |-> "idle"]
    /\ attempts = [c \in Callers |-> 0]
    /\ best_key_index = [c \in Callers |-> 0]
    /\ wakeAt = [c \in Callers |-> 0]
    /\ calledAt = [c \in Callers |-> 0]
    /\ sweepStart = [c \in Callers |-> 0]
    /\ result = [c \in Callers |-> -1]
    /\ rr = <<>>
    /\ rrCursor = 0
    /\ key_status = FreshKeyStatus
    /\ key_usage_count = FreshUsage
    /\ blocked_keys = {}
    /\ probes = {}
    /\ checking = FALSE
    /\ restrictedSeen = {}
    /\ consecutive = [i \in KeyIndices |-> 0]
    /\ req_pc = [r \in Requests |-> "new"]
    /\ req_doc = [r \in Requests |-> NoDocument]
    /\ strategy = [r \in Requests |-> "none"]
    /\ req_questions = [r \in Requests |-> <<>>]
    /\ answers = [r \in Requests |-> <<>>]
    /\ response = [r \in Requests |-> <<>>]
    /\ task_pc = [p \in Procs |-> "none"]
    /\ task_answer = [p \in Procs |-> NoAnswer]
    /\ ANSWER_CACHE = <<>>
    /\ stored_collections = {}
    /\ storedFor = {}
    /\ overtaken = {}
    /\ issued = {}
    /\ hits = {}
    /\ pdf_pages = <<>>
    /\ clean_pages = <<>>
    /\ request_times = <<>>
    /\ retrieval = NoRetrieval
    /\ req_credentials = [r \in Requests |-> ValidCredentials]

NextSingle ==
    \/ /\ \E c \in Callers : Acquire(c)
       /\ UNCHANGED <<mgrVars, pipeVars, docVars, authVars>>
    \/ /\ \E c \in Callers : AcquireResume(c)
       /\ UNCHANGED <<mgrVars, pipeVars, docVars, authVars>>
    \/ /\ \E c \in Callers : AcquireWakeUp(c)
       /\ UNCHANGED <<mgrVars, pipeVars, docVars, authVars>>
    \/ /\ Tick
       /\ UNCHANGED <<mgrVars, pipeVars, docVars, authVars, singleVars>>

SpecSingle == InitSingle /\ [][NextSingle]_vars

\* C39: with exactly one key configured, get_next_available_key always
\* returns that key with index 0, and right after every return the number of
\* stored timestamps within the trailing 60 seconds is at most
\* max_requests_per_minute, for any number of concurrent callers.
SingleKeyWindow ==
    /\ \A c \in DOMAIN phase : phase[c] = "returned" => result[c] = 0
    /\ Cardinality({i \in DOMAIN request_times :
                       request_times[i] > now - 60}) <= max_rpm

\* a caller returned after its sleep while the other caller, which had
\* queued for the lock, sleeps in turn
SingleKeyWindowWitness ==
    \E c, d \in DOMAIN phase :
        /\ phase[c] = "returned"
        /\ result[c] = 0
        /\ phase[d] = "sleeping"
        /\ now >= 61
        /\ Len(request_times) = max_rpm
        /\ request_times[Len(request_times)] = now

(***************************************************************************)
(* One request for a document with or without extractable text.            *)
(***************************************************************************)
AnyDocuments == Documents \cup {WithoutText(doc) : doc \in Documents}

InitDocs ==
    /\ now = 0
    /\ max_rpm = DEFAULT_RPM
    /\ key_request_times = [k \in KeyIndices |-> <<>>]
    /\ current_key_index = 0
    /\ lock = Free
    /\ lockWaiters = <<>>
    /\ phase = [p \in Procs |-> "idle"]
    /\ attempts = [p \in Procs |-> 0]
    /\ best_key_index = [p \in Procs |-> 0]
    /\ wakeAt = [p \in Procs |-> 0]
    /\ calledAt = [p \in Procs |-> 0]
    /\ sweepStart = [p \in Procs |-> 0]
    /\ result = [p \in Procs |-> 0]
    /\ rr = <<>>
    /\ rrCursor = 0
    /\ key_status = FreshKeyStatus
    /\ key_usage_count = FreshUsage
    /\ blocked_keys = {}
    /\ probes = {}
    /\ checking = FALSE
    /\ restrictedSeen = {}
    /\ consecutive = [i \in KeyIndices |-> 0]
    /\ req_pc = [r \in Requests |-> "new"]
    /\ req_doc = [r \in Requests |-> NoDocument]
    /\ strategy = [r \in Requests |-> "none"]
    /\ req_questions = [r \in Requests |-> <<>>]
    /\ answers = [r \in Requests |-> <<>>]
    /\ response = [r \in Requests |-> <<>>]
    /\ task_pc = [p \in Procs |-> "none"]
    /\ task_answer = [p \in Procs |-> NoAnswer]
    /\ ANSWER_CACHE = <<>>
    /\ stored_collections = {}
    /\ storedFor = {}
    /\ overtaken = {}
    /\ issued = {}
    /\ hits = {}
    /\ pdf_pages = <<>>
    /\ clean_pages = <<>>
    /\ request_times = <<>>
    /\ retrieval = NoRetrieval
    /\ req_credentials = [r \in Requests |-> ValidCredentials]

NextDocs ==
    \/ /\ \E doc \in AnyDocuments, questions \in QuestionLists :
             StartRequest(RouterRequest, doc, questions)
       /\ UNCHANGED <<mgrVars, docVars, authVars, singleVars>>
    \/ /\ RequestFails(RouterRequest)
       /\ UNCHANGED <<mgrVars, docVars, authVars, singleVars>>
    \/ /\ IngestDone(RouterRequest)
       /\ UNCHANGED <<mgrVars, docVars, authVars, singleVars>>
    \/ /\ TasksBegin(RouterRequest)
       /\ UNCHANGED <<mgrVars, docVars, authVars, singleVars>>
    \/ /\ \E p \in Procs : RetrievalDone(p)
       /\ UNCHANGED <<mgrVars, docVars, authVars, singleVars>>
    \/ /\ \E p \in Procs, outcome \in Outcomes : LlmDone(p, outcome)
       /\ UNCHANGED <<mgrVars, docVars, authVars, singleVars>>
    \/ /\ \E p \in Procs : BackoffDone(p)
       /\ UNCHANGED <<mgrVars, docVars, authVars, singleVars>>
    \/ /\ Respond(RouterRequest)
       /\ UNCHANGED <<mgrVars, docVars, authVars, singleVars>>
    \/ /\ \E p \in Procs, outcome \in Outcomes : DirectLlmDone(p, outcome)
       /\ UNCHANGED <<mgrVars, docVars, authVars, singleVars>>

SpecDocs == InitDocs /\ [][NextDocs]_vars

\* C21: a request whose document cannot be downloaded or yields no text
\* fails, in the retrieval strategy and in the direct strategy, and none of
\* its questions is processed: no retrieval, no key taken, no LLM call.
DocumentErrorFailsRequest ==
    \A r \in Requests :
        (/\ req_pc[r] # "new"
         /\ (req_doc[r] = NoDocument \/ ~req_doc[r].has_text))
            => /\ req_pc[r] = "failed"
               /\ \A p \in Procs :
                      p[1] = r => task_pc[p] = "none" /\ p \notin issued

(***************************************************************************)
(* Requests with any Authorization header, followed up to the launch of    *)
(* their questions.                                                        *)
(***************************************************************************)
InitAuth ==
    /\ now = 0
    /\ max_rpm = DEFAULT_RPM
    /\ key_request_times = [k \in KeyIndices |-> <<>>]
    /\ current_key_index = 0
    /\ lock = Free
    /\ lockWaiters = <<>>
    /\ phase = [p \in Procs |-> "idle"]
    /\ attempts = [p \in Procs |-> 0]
    /\ best_key_index = [p \in Procs |-> 0]
    /\ wakeAt = [p \in Procs |-> 0]
    /\ calledAt = [p \in Procs |-> 0]
    /\ sweepStart = [p \in Procs |-> 0]
    /\ result = [p \in Procs |-> 0]
    /\ rr = <<>>
    /\ rrCursor = 0
    /\ key_status = FreshKeyStatus
    /\ key_usage_count = FreshUsage
    /\ blocked_keys = {}
    /\ probes = {}
    /\ checking = FALSE
    /\ restrictedSeen = {}
    /\ consecutive = [i \in KeyIndices |-> 0]
    /\ req_pc = [r \in Requests |-> "new"]
    /\ req_doc = [r \in Requests |-> NoDocument]
    /\ strategy = [r \in Requests |-> "none"]
    /\ req_questions = [r \in Requests |-> <<>>]
    /\ answers = [r \in Requests |-> <<>>]
    /\ response = [r \in Requests |-> <<>>]
    /\ task_pc = [p \in Procs |-> "none"]
    /\ task_answer = [p \in Procs |-> NoAnswer]
    /\ ANSWER_CACHE = <<>>
    /\ stored_collections = {}
    /\ storedFor = {}
    /\ overtaken = {}
    /\ issued = {}
    /\ hits = {}
    /\ pdf_pages = <<>>
    /\ clean_pages = <<>>
    /\ request_times = <<>>
    /\ retrieval = NoRetrieval
    /\ req_credentials \in [Requests -> CredentialPool]

NextAuth ==
    \/ /\ \E r \in Requests, doc \in Documents, questions \in QuestionLists :
             /\ QuestionsAsked + Len(questions) <= MaxTasks
             /\ AcceptRequest(r, doc, questions)
       /\ UNCHANGED <<mgrVars, docVars, authVars, singleVars>>
    \/ /\ \E r \in Requests : RejectRequest(r)
       /\ UNCHANGED <<mgrVars, docVars, authVars, singleVars>>
    \/ /\ \E r \in Requests : IngestDone(r)
       /\ UNCHANGED <<mgrVars, docVars, authVars, singleVars>>
    \/ /\ \E r \in Requests : TasksBegin(r)
       /\ UNCHANGED <<mgrVars, docVars, authVars, singleVars>>

SpecAuth == InitAuth /\ [][NextAuth]_vars

\* C22: for a request without a bearer token or with another token than the
\* configured one nothing is processed: no download and no classification
\* (no document, no strategy), no cache access, no key selected and no LLM
\* call (none of its questions leaves its initial state).
RejectedBeforeProcessing ==
    \A r \in Requests :
        req_credentials[r] # ValidCredentials =>
            /\ req_pc[r] \in {"new", "rejected"}
            /\ req_doc[r] = NoDocument
            /\ strategy[r] = "none"
            /\ \A p \in Procs :
                   p[1] = r =>
                       /\ task_pc[p] = "none"
                       /\ p \notin issued
                       /\ \A h \in hits : h.task # p

\* a request whose token is the configured one with one more character was
\* rejected, and a later request with the configured token has an LLM call
\* in flight
RejectedBeforeProcessingWitness ==
    \E r, s \in Requests :
        /\ req_pc[r] = "rejected"
        /\ req_credentials[r] = Credentials("Bearer", API_BEARER_TOKEN \o <<"9">>)
        /\ req_credentials[s] = ValidCredentials
        /\ \E p \in issued : p[1] = s

(***************************************************************************)
(* Properties of the service.                                              *)
(***************************************************************************)

\* the LLM calls in flight: started and not yet ended
InFlight == {p \in DOMAIN task_pc : task_pc[p] = "inflight"}

\* C6: at every instant the number of LLM calls in flight across all the
\* questions and requests served by run_query_pipeline is at most
\* API_CONCURRENCY_LIMIT.
InFlightBounded == Cardinality(InFlight) <= API_CONCURRENCY_LIMIT

\* C18: analyze_document_strategy returns the decision of the table of
\* decisions: the direct strategy above 10 MB, the retrieval strategy up to
\* 2 MB whatever the content and the URL, and between them the first rule
\* that matches of: (1) more than 200 pages and insurance score >= 5:
\* retrieval; (2) more than 200 pages: direct; (3) general score >= 3 and
\* above the insurance score: direct; (4) insurance score <= 1 and general
\* score >= 2: direct; (5) URL with a general-document keyword and insurance
\* score < 3: direct; (6) more than 100 pages, general score above the
\* insurance score and insurance score < 3: direct; (7) insurance score >= 5:
\* retrieval; (8) otherwise retrieval.
RouterMatchesTable ==
    \A r \in Requests :
        (strategy[r] # "none" /\ req_doc[r].opens) =>
            LET doc == req_doc[r]
                pages == doc.total_pages
                domain == doc.insurance_score
                general == doc.general_score
                keyword == \E term \in UrlTerms :
                               Contains(Lower(doc.url), term)
                table ==
                    CASE doc.size_mb > 10 -> "direct_llm"
                      [] doc.size_mb <= 2 -> "rag"
                      [] OTHER ->
                          CASE pages > 200 /\ domain >= 5 -> "rag"
                            [] pages > 200 /\ ~(domain >= 5) -> "direct_llm"
                            [] OTHER ->
                             IF general >= 3 /\ general > domain
                             THEN "direct_llm"
                             ELSE IF domain <= 1 /\ general >= 2
                             THEN "direct_llm"
                             ELSE IF keyword /\ domain < 3
                             THEN "direct_llm"
                             ELSE IF /\ pages > 100
                                     /\ general > domain
                                     /\ domain < 3
                             THEN "direct_llm"
                             ELSE IF domain >= 5
                             THEN "rag"
                             ELSE "rag"
            IN  strategy[r] = table

\* a 3 MB document of 50 pages with general score 4 and insurance score 1
\* was routed to the direct strategy
RouterMatchesTableWitness ==
    \E r \in Requests :
        /\ strategy[r] = "direct_llm"
        /\ req_doc[r].size_mb = 3
        /\ req_doc[r].total_pages = 50
        /\ req_doc[r].general_score = 4
        /\ req_doc[r].insurance_score = 1

\* C33: for a document between 2 MB and 10 MB strong insurance indicators
\* override everything else: with an insurance score of at least 5 the
\* strategy is rag, for every page count, general score and URL.
StrongInsuranceKeepsRag ==
    \A r \in Requests :
        (/\ strategy[r] # "none"
         /\ req_doc[r].size_mb > 2
         /\ req_doc[r].size_mb <= 10
         /\ req_doc[r].insurance_score >= 5) =>
            strategy[r] = "rag"

\* C37: analyze_document_strategy is total: every request that got past it
\* has exactly one of the strategies direct_llm and rag, and when the content
\* analysis of a document between 2 MB and 10 MB fails the strategy is rag.
AnalysisTotal ==
    \A r \in Requests :
        req_pc[r] # "new" =>
            /\ strategy[r] \in {"direct_llm", "rag"}
            /\ (/\ ~req_doc[r].opens
                /\ req_doc[r].size_mb > 2
                /\ req_doc[r].size_mb <= 10) => strategy[r] = "rag"

\* the analysis of a 3 MB document with a textbook URL failed
AnalysisTotalWitness ==
    \E r \in Requests :
        /\ req_pc[r] # "new"
        /\ ~req_doc[r].opens
        /\ req_doc[r].size_mb = 3
        /\ req_doc[r].url = UrlTextBook
        /\ strategy[r] = "rag"

\* C17: the limiter lock is not held by a caller whose LLM call is in
\* flight, so that a call in flight keeps no other caller from completing
\* get_next_available_key: a question whose retrieval is over can take its
\* key and issue its call whatever calls are in flight.
LockNotHeldInFlight ==
    \A p \in InFlight :
        /\ p \notin lock
        /\ \A q \in DOMAIN task_pc :
               task_pc[q] = "retrieving" => ENABLED RetrievalDone(q)

\* two callers that obtained two different keys have their LLM calls in
\* flight at the same time
LockNotHeldInFlightWitness ==
    \E p, q \in InFlight : p # q /\ result[p] # result[q]

\* C3: every LLM call of the answer path, and so every return of
\* get_next_available_key, is made with a key that has not had an
\* access-restricted error before.
NoCallWithRestrictedKey ==
    [][\A p \in DOMAIN task_pc :
          (p \notin issued /\ p \in issued') =>
              result'[p] \notin restrictedSeen]_vars

\* C10: a request received while every key is blocked issues no LLM call
\* in the segment that receives it.
NoCallWhenAllBlocked ==
    [][(/\ blocked_keys = KeyIndices
        /\ \E r \in Requests : req_pc[r] = "new" /\ req_pc'[r] # "new")
           => issued' = issued]_vars

\* C23: a document identity is ingested at most once: whenever a request's
\* embed_and_store_async completes and adds the chunks, the collection of that
\* document did not already hold them, for every interleaving of requests
\* for the same URL.
IngestedAtMostOnce ==
    [][\A r \in Requests :
           (req_pc[r] = "ingesting" /\ req_pc'[r] # "ingesting") =>
               collection_name(req_doc[r]) \notin stored_collections]_vars

\* C9: the value ANSWER_CACHE holds for a key never changes.
CacheValueStable ==
    [][\A k \in DOMAIN ANSWER_CACHE :
          /\ k \in DOMAIN ANSWER_CACHE'
          /\ ANSWER_CACHE'[k] = ANSWER_CACHE[k]]_vars

\* C7: the answers of a request that has responded are as many as its
\* questions, and the answer at each position is what the answer path of
\* the question at that position returned: the text produced for that
\* question (for the question it shares its cache key with, when the answer
\* came from the cache) or a fixed text; in both strategies and whatever
\* the order in which the LLM calls ended.
OrderPreserved ==
    \A r \in Requests :
        req_pc[r] = "responded" =>
            /\ Len(response[r]) = Len(req_questions[r])
            /\ \A i \in 1 .. Len(req_questions[r]) :
                   /\ response[r][i] = task_answer[<<r, i>>]
                   /\ response[r][i].kind = "llm" =>
                          Normalize(response[r][i].q) =
                              Normalize(req_questions[r][i])

\* a request of the retrieval strategy has responded with two different
\* LLM answers, the call of its second question having ended first
OrderPreservedWitness ==
    \E r \in overtaken :
        /\ req_pc[r] = "responded"
        /\ Len(response[r]) > 1
        /\ response[r][1].kind = "llm"
        /\ response[r][Len(response[r])].kind = "llm"
        /\ response[r][1] # response[r][Len(response[r])]

\* the text without its whitespace, in lower case
Squash(text) == Lower(SelectSeq(text, LAMBDA ch : ~IsSpace(ch)))

\* a and b differ only in letter case or in whitespace
SameUpToCaseAndSpace(a, b) == Squash(a) = Squash(b)

AllSpace(text) == \A i \in DOMAIN text : IsSpace(text[i])

\* the parts of the text that leave out only whitespace at its two ends
Cores(text) ==
    {SubSeq(text, i, j) : <<i, j>> \in
        {ij \in (1 .. (Len(text) + 1)) \X (0 .. Len(text)) :
            /\ ij[1] <= ij[2] + 1
            /\ AllSpace(SubSeq(text, 1, ij[1] - 1))
            /\ AllSpace(SubSeq(text, ij[2] + 1, Len(text)))}}

\* a and b differ only in letter case or in leading and trailing whitespace
SameUpToCaseAndOuterSpace(a, b) ==
    \E ca \in Cores(a), cb \in Cores(b) : Lower(ca) = Lower(cb)

\* C8, as stated: once an answer is stored for (document, question), a
\* later get_cached_answer_or_generate call for the same document and a
\* question that differs from the stored one only in letter case or in
\* whitespace returns the stored answer without retrieving a context,
\* without taking a key and without issuing an LLM call.
CacheHitAnyWhitespace ==
    [][\A r \in Requests :
          (req_pc[r] = "launched" /\ req_pc'[r] = "gathering") =>
              \A p \in TasksOf(r), e \in storedFor :
                  (/\ e[1] = collection_name(req_doc[r])
                   /\ SameUpToCaseAndSpace(e[2], req_questions[r][p[2]]))
                  => /\ task_pc'[p] = "done"
                     /\ task_answer'[p] = ANSWER_CACHE[get_cache_key(e[2], e[1])]
                     /\ phase'[p] = "idle"
                     /\ p \notin issued']_vars

\* C8, amended: once an answer is stored for (document, question), a later
\* get_cached_answer_or_generate call for the same document and a question
\* that differs from the stored one only in letter case or in leading and
\* trailing whitespace returns the stored answer without retrieving a
\* context, without taking a key and without issuing an LLM call, even
\* when no key is healthy.
CacheHitOuterWhitespace ==
    [][\A r \in Requests :
          (req_pc[r] = "launched" /\ req_pc'[r] = "gathering") =>
              \A p \in TasksOf(r), e \in storedFor :
                  (/\ e[1] = collection_name(req_doc[r])
                   /\ SameUpToCaseAndOuterSpace(e[2], req_questions[r][p[2]]))
                  => /\ task_pc'[p] = "done"
                     /\ task_answer'[p] = ANSWER_CACHE[get_cache_key(e[2], e[1])]
                     /\ phase'[p] = "idle"
                     /\ p \notin issued']_vars

\* a question was answered from the cache, while no key was healthy, with
\* the text the LLM produced for a question of another spelling
CacheHitWitness ==
    \E h \in hits :
        /\ h.healthy = {}
        /\ task_pc[h.task] = "done"
        /\ h.task \notin issued
        /\ task_answer[h.task].kind = "llm"
        /\ task_answer[h.task].q # req_questions[h.task[1]][h.task[2]]

\* C26: every provider failure of an LLM call made while answering a
\* question is recorded against the key that was used: when the call of a
\* task ends with a failure, the error count of its key grows or the key
\* enters the blocked set.
FailureRecorded ==
    [][\A p \in Procs :
          (/\ task_pc[p] = "inflight"
           /\ task_pc'[p] # "inflight"
           /\ \/ task_pc'[p] = "backoff"
              \/ task_answer'[p].kind \in
                     {"groq_error", "unexpected", "no_info"}) =>
              \/ key_status'[result[p]].error_count >
                     key_status[result[p]].error_count
              \/ result[p] \in blocked_keys' \ blocked_keys]_vars

\* the cache key of the question of task p
KeyOf(p) ==
    get_cache_key(req_questions'[p[1]][p[2]],
                  collection_name(req_doc'[p[1]]))

\* C29: for every question, in the retrieval strategy and in the direct
\* strategy, the answer cache is consulted before an LLM call is issued for
\* the question, and the produced answer is written back to the cache after
\* the LLM call: no call is issued for a question that the cache holds when
\* its task starts, and when the task of an issued call is done the cache
\* holds its answer.
CacheAroundLlm ==
    [][\A p \in Procs :
          /\ (task_pc[p] = "none" /\ p \in issued' \ issued) =>
                 KeyOf(p) \notin DOMAIN ANSWER_CACHE
          /\ (task_pc[p] \in {"inflight", "backoff"} /\ task_pc'[p] = "done") =>
                 /\ KeyOf(p) \in DOMAIN ANSWER_CACHE'
                 /\ ANSWER_CACHE'[KeyOf(p)] = task_answer'[p]]_vars

\* C30: a cache entry is created only by a successful answer: when the LLM
\* call for a question fails and a placeholder is returned, nothing is
\* stored in ANSWER_CACHE for the question, so that the cache holds answers
\* of the LLM only and a later identical question gets a new LLM call.
OnlyAnswersCached ==
    \A cache_key \in DOMAIN ANSWER_CACHE :
        ANSWER_CACHE[cache_key].kind \notin
            {"busy", "groq_error", "unexpected", "unavailable", "no_info"}

\* C31: in both strategies the per-question work of a batch is launched
\* concurrently: while the LLM call of one question of a request is in
\* flight, the work of every other question of the request has been
\* launched too, so that the call of question i can start before the call of
\* question i-1 has completed.
BatchLaunchedConcurrently ==
    \A r \in Requests :
        \A p \in TasksOf(r) :
            task_pc[p] = "inflight" =>
                \A other \in TasksOf(r) : task_pc[other] # "none"

\* C32: within one request at most one LLM call is issued per question:
\* a call is issued only for a question that had none, a call that has
\* ended is never issued again, and after the back-off that follows a
\* rate-limit error the question receives the placeholder answer.
OneCallPerQuestion ==
    [][\A p \in Procs :
          /\ (task_pc[p] # "inflight" /\ task_pc'[p] = "inflight") =>
                 /\ p \notin issued
                 /\ p \in issued'
          /\ (task_pc[p] \in {"backoff", "done", "raised"}) =>
                 /\ task_pc'[p] \in {"backoff", "done", "raised"}
                 /\ (p \in issued' <=> p \in issued)
          /\ (task_pc[p] = "backoff" /\ task_pc'[p] # "backoff") =>
                 /\ task_pc'[p] = "done"
                 /\ task_answer'[p] = [kind |-> "busy", q |-> <<>>]
          /\ (task_pc[p] = "done" => task_answer'[p] = task_answer[p])]_vars

\* a question whose call hit the rate limit has its placeholder, and a
\* question of the direct strategy whose call failed has its own
OneCallPerQuestionWitness ==
    \E p, d \in issued :
        /\ task_pc[p] = "done"
        /\ task_answer[p].kind = "busy"
        /\ task_pc[d] = "done"
        /\ task_answer[d].kind = "no_info"

\* C11: a failure while one question is processed does not fail the
\* request: no request has failed with one of its questions having raised.
QuestionFailureContained ==
    \A p \in DOMAIN task_pc :
        task_pc[p] = "raised" => req_pc[p[1]] # "failed"
====
